---- MODULE Spec2Model ----
(***************************************************************************)
(* A model of pygweblet's two dispatch engines:                            *)
(*                                                                         *)
(*   - SpecWS:   one WebSocket connection served by PygWebWSRouter.handle  *)
(*               (websocket.py) and PygWebPacket.handle (packet.py).       *)
(*   - SpecHTTP: one HTTP request served by PygWebRoute.handle (route.py). *)
(* and of the loaders that build their tables from the file system:        *)
(*   - SpecLoad:  PygWebServer.serve / load (server.py), PygWebRouter.load *)
(*                (router.py) and PygWebWSRouter.load (websocket.py).      *)
(*   - SpecLoad:  also cancel() and the start of the listener, once the    *)
(*                serving task exists (server.py).                         *)
(*   - SpecMerge: the router's two registering operations, _load_program   *)
(*                and _load_template, applied in either order.             *)
(*   - SpecPackets: serve / load on an application that has packets only,  *)
(*                two of whose units compile to the same packet path.      *)
(*                                                                         *)
(* Python values are encoded uniformly as records [t, s, items] so that    *)
(* any two of them can be compared:                                        *)
(*   t      the Python type ("str", "int", "NoneType", "list", "dict"),    *)
(*   s      the text of a scalar,                                          *)
(*   items  the elements of a list, or the <<key, value>> pairs of a dict. *)
(* The text of a Python string is written the way json.dumps spells it     *)
(* between the quotes, so a line break is the two characters \n.           *)
(***************************************************************************)
EXTENDS Integers, Sequences, FiniteSets, TLC

VARIABLES
    packets,    \* PygWebWSRouter._packets: packet path -> packet
    inbox,      \* frames the transport has received and the loop has not read
    arrived,    \* every frame the transport has received, in arrival order
    nread,      \* number of frames the read loop has taken from the transport
    pc,         \* position of the connection's task in PygWebWSRouter.handle
    inflight,   \* handler invocations that have started and not finished
    trace,      \* what the engine did, in order: reads, invocations, sends
    http_pc,    \* position of the request's task in PygWebRoute.handle
    route,      \* the PygWebRoute the request was matched to
    request,    \* the aiohttp request: query string, POST body, match_info
    reads,      \* the request sources PygWebRoute.handle has materialised
    kwargs,     \* the keyword arguments assembled for the program
    result,     \* what the program returned
    lookups,    \* templates fetched from the template environment
    response,   \* what PygWebRoute.handle returned (or raised)
    base_dir,   \* PygWebServer.base_dir, as the names of its parts
    tree,       \* the files under base_dir
    load_pc,    \* position of the caller in PygWebServer.load
    entry,      \* the method the caller entered: serve() or load()
    visited,    \* the files rglob has yielded so far
    executed,   \* the units the loaders have executed or attached
    routes,     \* PygWebRouter._routes: (method, path) -> route
    loaded,     \* PygWebServer._loaded
    serving,    \* PygWebServer.serving_task has been created
    serving_task, \* PygWebServer.serving_task: None, or the state of the task
    listening,  \* the TCP site has been started and accepts connections
    stop_event, \* PygWebServer.stop_event is set
    awaiting    \* a serve() call is at `await self.stop_event.wait()`

ws_vars == <<packets, inbox, arrived, nread, pc, inflight, trace>>
http_vars == <<http_pc, route, request, reads, kwargs, result, lookups, response>>
run_vars == <<serving_task, listening, stop_event, awaiting>>
load_vars ==
    <<base_dir, tree, load_pc, entry, visited, executed, routes, loaded, serving, run_vars>>
vars == <<ws_vars, http_vars, load_vars>>

-----------------------------------------------------------------------------
(* Bounds of the model.                                                    *)

\* Frames the client sends on the connection.
MaxMsgs == 2
\* Values a streaming handler yields before it is exhausted.
MaxYield == 2
\* Directories above a unit, in the paths the path compilers are applied to.
MaxDepth == 2

-----------------------------------------------------------------------------
(* Python values.                                                          *)

JStr(s) == [t |-> "str", s |-> s, items |-> <<>>]
JInt(s) == [t |-> "int", s |-> s, items |-> <<>>]
JNone == [t |-> "NoneType", s |-> "None", items |-> <<>>]
JList(items) == [t |-> "list", s |-> "", items |-> items]
JPair(key, value) == [t |-> "pair", s |-> "", items |-> <<key, value>>]
JDict(pairs) == [t |-> "dict", s |-> "", items |-> pairs]

\* isinstance(value, dict) / list / str
isinstance_dict(value) == value.t = "dict"
isinstance_list(value) == value.t = "list"
isinstance_str(value) == value.t = "str"

\* str(type(value)), as the f-strings of parse() print it
type_repr(value) == "<class '" \o value.t \o "'>"

\* key in d, and d.get(key)
dict_has(d, key) == \E i \in 1..Len(d.items) : d.items[i].items[1] = JStr(key)
dict_get(d, key) ==
    IF dict_has(d, key)
    THEN (d.items[CHOOSE i \in 1..Len(d.items) : d.items[i].items[1] = JStr(key)]).items[2]
    ELSE JNone

RECURSIVE JoinWith(_, _)
\* sep.join(strings)
JoinWith(strings, sep) ==
    IF strings = <<>> THEN ""
    ELSE IF Len(strings) = 1 THEN strings[1]
    ELSE strings[1] \o sep \o JoinWith(Tail(strings), sep)

-----------------------------------------------------------------------------
(* Packets and their validators (packet.py).                               *)

\* A parameter of a handler's signature. hint "" is a parameter with no
\* annotation; default is read only when has_default.
Param(name, hint, has_default, default) ==
    [name |-> name, hint |-> hint, has_default |-> has_default, default |-> default]

\* The handlers the packet units of the served application define: what
\* _load_packet finds in the executed modules.
Handlers ==
    { [path |-> "echo", kind |-> "coroutine",
       params |-> <<Param("text", "str", FALSE, JNone)>>],
      [path |-> "chat.stream", kind |-> "asyncgen",
       params |-> <<Param("n", "int", TRUE, JInt("3"))>>],
      [path |-> "say", kind |-> "coroutine",
       params |-> <<Param("text", "", FALSE, JNone)>>] }

iscoroutinefunction(handler) == handler.kind = "coroutine"
isasyncgenfunction(handler) == handler.kind = "asyncgen"

\* The fields of the pydantic model that from_coroutine builds with
\* type("Validator", (BaseModel,), attributes): one field per annotated
\* parameter and per parameter with a default; required unless it has a default.
ValidatorFields(handler) ==
    SelectSeq(handler.params, LAMBDA p : p.hint # "" \/ p.has_default)

from_coroutine(path, handler) ==
    [path |-> path, handler |-> handler, validator |-> ValidatorFields(handler)]

\* PygWebWSRouter._packets once load() has returned.
PacketTable ==
    [path \in {h.path : h \in Handlers} |->
        from_coroutine(path, CHOOSE h \in Handlers : h.path = path)]

\* The numerals pydantic's int() conversion meets in this model.
Numerals == {"0", "1", "2", "3"}

\* pydantic's validation of one present value against a field's type:
\* the converted value, or the error it reports.
Ok(value) == [ok |-> TRUE, value |-> value, msg |-> ""]
Fail(msg) == [ok |-> FALSE, value |-> JNone, msg |-> msg]
ValidateValue(type, value) ==
    IF value.t = "NoneType"
    THEN Fail("none is not an allowed value (type=type_error.none.not_allowed)")
    ELSE IF type = "str"
    THEN IF value.t \in {"str", "int"} THEN Ok(JStr(value.s))
         ELSE Fail("str type expected (type=type_error.str)")
    ELSE IF type = "int"
    THEN IF value.t = "int" \/ (value.t = "str" /\ value.s \in Numerals)
         THEN Ok(JInt(value.s))
         ELSE Fail("value is not a valid integer (type=type_error.integer)")
    ELSE Ok(value)

\* The validation of one field against the envelope's arguments.
ValidateField(field, args) ==
    IF dict_has(args, field.name)
    THEN ValidateValue(field.hint, dict_get(args, field.name))
    ELSE IF field.has_default THEN Ok(field.default)
    ELSE Fail("field required (type=value_error.missing)")

\* The lines of str(ValidationError), one location and one message per
\* failed field.
RECURSIVE ErrorLines(_, _)
ErrorLines(fields, args) ==
    IF fields = <<>> THEN <<>>
    ELSE LET r == ValidateField(Head(fields), args)
         IN  (IF r.ok THEN <<>> ELSE <<Head(fields).name, "  " \o r.msg>>)
             \o ErrorLines(Tail(fields), args)

ErrorCountText(n) ==
    CASE n = 1 -> "1 validation error for Validator"
      [] n = 2 -> "2 validation errors for Validator"
      [] OTHER -> "several validation errors for Validator"

ValidationErrorLines(fields, args) ==
    LET lines == ErrorLines(fields, args)
    IN  <<ErrorCountText(Len(lines) \div 2)>> \o lines

\* Mutation of ValidatedPairs: the pairs of the envelope, as received.
raw_pairs(fields, args) == args.items

\* arguments.dict(): every field of the validator with its validated value.
RECURSIVE ValidatedPairs(_, _)
ValidatedPairs(fields, args) ==
    IF fields = <<>> THEN <<>>
    ELSE <<JPair(JStr(Head(fields).name), ValidateField(Head(fields), args).value)>>
         \o ValidatedPairs(Tail(fields), args)

\* Mutation of Validate: the arguments are passed on without validation.
validate_unchecked(packet, args) == [ok |-> TRUE, arguments |-> args, lines |-> <<>>]

\* packet.validator(**args): the ValidationError raised, or the model built.
Validate(packet, args) ==
    IF ErrorLines(packet.validator, args) = <<>>
    THEN [ok |-> TRUE, arguments |-> JDict(ValidatedPairs(packet.validator, args)),
          lines |-> <<>>]
    ELSE [ok |-> FALSE, arguments |-> JDict(<<>>),
          lines |-> ValidationErrorLines(packet.validator, args)]

-----------------------------------------------------------------------------
(* JSON, as json.dumps writes it and json.loads reads it.                  *)

\* The well-formed JSON texts a client sends here, each with the value
\* json.loads decodes it to.
Envelope(name, pairs) == JList(<<JStr(name), JDict(pairs)>>)
JsonTexts ==
    "{}" :> JDict(<<>>)
    @@ "[\"echo\"]" :> JList(<<JStr("echo")>>)
    @@ "[1, {}]" :> JList(<<JInt("1"), JDict(<<>>)>>)
    @@ "[\"echo\", []]" :> JList(<<JStr("echo"), JList(<<>>)>>)
    @@ "[1, []]" :> JList(<<JInt("1"), JList(<<>>)>>)
    @@ "[\"ping\", {}]" :> Envelope("ping", <<>>)
    @@ "[\"echo\", {\"text\": \"hi\"}]" :>
            Envelope("echo", <<JPair(JStr("text"), JStr("hi"))>>)
    @@ "[\"echo\", {}]" :> Envelope("echo", <<>>)
    @@ "[\"echo\", {\"text\": []}]" :>
            Envelope("echo", <<JPair(JStr("text"), JList(<<>>))>>)
    @@ "[\"chat.stream\", {}]" :> Envelope("chat.stream", <<>>)
    @@ "[\"say\", {}]" :> Envelope("say", <<>>)
    @@ "[\"say\", {\"text\": \"hi\"}]" :>
            Envelope("say", <<JPair(JStr("text"), JStr("hi"))>>)
    @@ "[\"chat.stream\", {\"n\": \"hi\"}]" :>
            Envelope("chat.stream", <<JPair(JStr("n"), JStr("hi"))>>)

RECURSIVE json_dumps(_)
RECURSIVE dumps_items(_)
\* The elements of a list, or the pairs of a dict, each serialised.
dumps_items(items) ==
    IF items = <<>> THEN <<>>
    ELSE <<IF Head(items).t = "pair"
           THEN "\"" \o Head(items).items[1].s \o "\": "
                \o json_dumps(Head(items).items[2])
           ELSE json_dumps(Head(items))>> \o dumps_items(Tail(items))

json_dumps(value) ==
    CASE value.t = "str" -> "\"" \o value.s \o "\""
      [] value.t = "int" -> value.s
      [] value.t = "NoneType" -> "null"
      [] value.t = "list" -> "[" \o JoinWith(dumps_items(value.items), ", ") \o "]"
      [] value.t = "dict" -> "{" \o JoinWith(dumps_items(value.items), ", ") \o "}"

\* str(JSONDecodeError) for the texts that are not JSON.
JSONDecodeError ==
    [text \in {"not-json", "[\"echo\", "} |->
        IF text = "not-json" THEN "Expecting value: line 1 column 1 (char 0)"
        ELSE "Expecting value: line 1 column 10 (char 9)"]

\* The data of the TEXT frames a client sends.
Messages == DOMAIN JsonTexts \cup DOMAIN JSONDecodeError

\* json.loads(text): the decoded value, or the JSONDecodeError raised.
json_loads(text) ==
    IF text \in DOMAIN JSONDecodeError
    THEN Fail(JSONDecodeError[text])
    ELSE Ok(JsonTexts[text])

\* {"error": message}
ErrorReply(message) == JDict(<<JPair(JStr("error"), JStr(message))>>)

-----------------------------------------------------------------------------
(* PygWebWSRouter.parse (websocket.py).                                    *)

ParseError(text) == [is_str |-> TRUE, text |-> text, path |-> "", args |-> JNone]
ParsedPacket(parsed) ==
    [is_str |-> FALSE, text |-> "", path |-> parsed.items[1].s, args |-> parsed.items[2]]

\* Mutation of check_structure: the second element is checked before the first.
check_structure_swapped(parsed) ==
    IF ~isinstance_list(parsed)
    THEN ParseError("the packet should be a list [packet name, {arg1: whatever, ...}]")
    ELSE IF Len(parsed.items) # 2
    THEN ParseError("two (2) elements should be included in the list: "
            \o "the packet name (as a string) and the argments "
            \o "(as a dictionary).  It can be an empty dictionary, "
            \o "but it has to be present.")
    ELSE IF ~isinstance_dict(parsed.items[2])
    THEN ParseError("the second element should be a dictionary, but "
            \o type_repr(parsed.items[2]) \o " received")
    ELSE IF ~isinstance_str(parsed.items[1])
    THEN ParseError("the first element should be a string, but "
            \o type_repr(parsed.items[1]) \o " received")
    ELSE IF ~(\A i \in 1..Len(parsed.items[2].items) :
                isinstance_str(parsed.items[2].items[i].items[1]))
    THEN ParseError("the second element should be a dictionary containing "
            \o "only strings as keys.  The specified arguments aren't valid.")
    ELSE ParsedPacket(parsed)

\* The checks parse() applies to the decoded value, in the order it applies them.
check_structure(parsed) ==
    IF ~isinstance_list(parsed)
    THEN ParseError("the packet should be a list [packet name, {arg1: whatever, ...}]")
    ELSE IF Len(parsed.items) # 2
    THEN ParseError("two (2) elements should be included in the list: "
            \o "the packet name (as a string) and the argments "
            \o "(as a dictionary).  It can be an empty dictionary, "
            \o "but it has to be present.")
    ELSE IF ~isinstance_str(parsed.items[1])
    THEN ParseError("the first element should be a string, but "
            \o type_repr(parsed.items[1]) \o " received")
    ELSE IF ~isinstance_dict(parsed.items[2])
    THEN ParseError("the second element should be a dictionary, but "
            \o type_repr(parsed.items[2]) \o " received")
    ELSE IF ~(\A i \in 1..Len(parsed.items[2].items) :
                isinstance_str(parsed.items[2].items[i].items[1]))
    THEN ParseError("the second element should be a dictionary containing "
            \o "only strings as keys.  The specified arguments aren't valid.")
    ELSE ParsedPacket(parsed)

parse(message) ==
    LET decoded == json_loads(message)
    IN  IF ~decoded.ok THEN ParseError(decoded.msg)
        ELSE check_structure(decoded.value)

-----------------------------------------------------------------------------
(* The WebSocket dispatch engine (websocket.py, packet.py).                *)

\* The frames the transport delivers to `async for msg in ws`. A CLOSE frame
\* ends the iteration; BINARY stands for every type that is neither TEXT,
\* ERROR nor a closing one.
Frame(type, data) == [type |-> type, data |-> data]
Frames ==
    {Frame("TEXT", m) : m \in Messages}
        \cup {Frame("BINARY", ""), Frame("ERROR", ""), Frame("CLOSE", "")}

\* What the single-result handlers of the application return: a mapping, or
\* nothing.
HandlerResults == { JDict(<<JPair(JStr("text"), JStr("hi"))>>), JNone }

\* What a streaming handler yields after n values: the mapping {"i": n}, or
\* a value that is not a mapping.
Numeral(n) == CASE n = 0 -> "0" [] n = 1 -> "1" [] n = 2 -> "2" [] OTHER -> "3"
YieldResults(n) == { JDict(<<JPair(JStr("i"), JInt(Numeral(n)))>>), JNone }

\* One entry of the trace: the frame number it belongs to, a text (the frame
\* read or sent, the packet invoked) and a value (the arguments of an
\* invocation, the result returned or yielded).
Event(ev, msg, data, value) == [ev |-> ev, msg |-> msg, data |-> data, value |-> value]
SendStr(msg, text) == Event("send", msg, text, JNone)

\* handle_message up to the point where it awaits packet.handle: the frames
\* it sends itself, and the packet and arguments it hands over, if any.
Rejected(msg, text) ==
    [sends |-> <<SendStr(msg, json_dumps(ErrorReply(text)))>>,
     invoke |-> FALSE, path |-> "", arguments |-> JNone]
Accepted(path, arguments) ==
    [sends |-> <<>>, invoke |-> TRUE, path |-> path, arguments |-> arguments]

\* Mutation of not_valid_error: the name is printed with repr().
not_valid_error_repr(path) == "the packet name '" \o path \o "' is not valid"

not_valid_error(path) == "the packet name " \o path \o " is not valid"

\* Mutation of handle_message: after a validation error has been sent the
\* packet is handled all the same, with the arguments as received.
handle_message_falls_through(msg, message) ==
    LET parsed == parse(message)
    IN  IF parsed.is_str THEN Rejected(msg, parsed.text)
        ELSE IF parsed.path \notin DOMAIN packets
        THEN Rejected(msg, not_valid_error(parsed.path))
        ELSE LET validated == Validate(packets[parsed.path], parsed.args)
             IN  IF ~validated.ok
                 THEN [Rejected(msg, JoinWith(validated.lines, "\\n"))
                        EXCEPT !.invoke = TRUE, !.path = parsed.path,
                               !.arguments = parsed.args]
                 ELSE Accepted(parsed.path, validated.arguments)

\* PygWebWSRouter.handle_message, up to `await packet.handle(...)`.
handle_message(msg, message) ==
    LET parsed == parse(message)
    IN  IF parsed.is_str THEN Rejected(msg, parsed.text)
        ELSE IF parsed.path \notin DOMAIN packets
        THEN Rejected(msg, not_valid_error(parsed.path))
        ELSE LET validated == Validate(packets[parsed.path], parsed.args)
             IN  IF ~validated.ok
                 THEN Rejected(msg, JoinWith(validated.lines, "\\n"))
                 ELSE Accepted(parsed.path, validated.arguments)

\* handler(**arguments): Python binds the arguments to the signature before
\* the body runs, and raises TypeError when a parameter with no default has
\* no argument.
binds(handler, arguments) ==
    \A i \in 1..Len(handler.params) :
        handler.params[i].has_default \/ dict_has(arguments, handler.params[i].name)

\* Mutation of forward: every result is serialised and sent.
forward_unchecked(msg, value) == <<SendStr(msg, json_dumps(value))>>

\* PygWebPacket.handle: a result is forwarded when it is a dict.
forward(msg, value) ==
    IF isinstance_dict(value) THEN <<SendStr(msg, json_dumps(value))>> ELSE <<>>

\* Mutation of LoopReady: the loop takes the next frame while a handler it
\* started is still running.
LoopReadyConcurrent == pc \in {"recv", "handling"}

\* The task is at `async for msg in ws`, waiting for the next frame: every
\* await of the loop's body has returned.
LoopReady == pc = "recv"

NextFrame == Head(inbox)

ClientSend ==
    /\ Len(arrived) < MaxMsgs
    /\ pc \in {"recv", "handling"}
    /\ \E frame \in Frames :
        /\ inbox' = Append(inbox, frame)
        /\ arrived' = Append(arrived, frame)
    /\ UNCHANGED <<packets, nread, pc, inflight, trace, http_vars, load_vars>>

\* Mutation of ReadText: the loop is left once a message has been rejected.
ReadTextClosesOnError ==
    /\ LoopReady
    /\ inbox # <<>>
    /\ NextFrame.type = "TEXT"
    /\ LET msg == nread + 1
           out == handle_message(msg, NextFrame.data)
       IN  /\ trace' = trace \o <<Event("read", msg, NextFrame.data, JNone)>> \o out.sends
                  \o (IF out.invoke
                      THEN <<Event("invoke", msg, out.path, out.arguments)>>
                      ELSE <<>>)
           /\ inflight' = inflight \cup
                  (IF out.invoke
                   THEN {[msg |-> msg, path |-> out.path, yielded |-> 0,
                          bound |-> binds(packets[out.path].handler, out.arguments)]}
                   ELSE {})
           /\ pc' = IF out.invoke THEN "handling" ELSE "closed"
    /\ inbox' = Tail(inbox)
    /\ nread' = nread + 1
    /\ UNCHANGED <<packets, arrived, http_vars, load_vars>>

\* msg.type == TEXT: await self.handle_message(ws, msg.data)
ReadText ==
    /\ LoopReady
    /\ inbox # <<>>
    /\ NextFrame.type = "TEXT"
    /\ LET msg == nread + 1
           out == handle_message(msg, NextFrame.data)
       IN  /\ trace' = trace \o <<Event("read", msg, NextFrame.data, JNone)>> \o out.sends
                  \o (IF out.invoke
                      THEN <<Event("invoke", msg, out.path, out.arguments)>>
                      ELSE <<>>)
           /\ inflight' = inflight \cup
                  (IF out.invoke
                   THEN {[msg |-> msg, path |-> out.path, yielded |-> 0,
                          bound |-> binds(packets[out.path].handler, out.arguments)]}
                   ELSE {})
           /\ pc' = IF out.invoke THEN "handling" ELSE pc
    /\ inbox' = Tail(inbox)
    /\ nread' = nread + 1
    /\ UNCHANGED <<packets, arrived, http_vars, load_vars>>

\* Mutation of SkipFrame: the loop is left on a frame it has no branch for.
SkipFrameCloses ==
    /\ LoopReady
    /\ inbox # <<>>
    /\ NextFrame.type = "BINARY"
    /\ trace' = Append(trace, Event("skip", nread + 1, "", JNone))
    /\ inbox' = Tail(inbox)
    /\ nread' = nread + 1
    /\ pc' = "closed"
    /\ UNCHANGED <<packets, arrived, inflight, http_vars, load_vars>>

\* A frame that is neither TEXT nor ERROR: the loop's body does nothing.
SkipFrame ==
    /\ LoopReady
    /\ inbox # <<>>
    /\ NextFrame.type = "BINARY"
    /\ trace' = Append(trace, Event("skip", nread + 1, "", JNone))
    /\ inbox' = Tail(inbox)
    /\ nread' = nread + 1
    /\ UNCHANGED <<packets, arrived, pc, inflight, http_vars, load_vars>>

\* msg.type == ERROR: break
ReadError ==
    /\ LoopReady
    /\ inbox # <<>>
    /\ NextFrame.type = "ERROR"
    /\ trace' = Append(trace, Event("break", nread + 1, "", JNone))
    /\ inbox' = Tail(inbox)
    /\ nread' = nread + 1
    /\ pc' = "closed"
    /\ UNCHANGED <<packets, arrived, inflight, http_vars, load_vars>>

\* The inbound stream ends: the iteration stops and handle() returns ws.
StreamEnd ==
    /\ LoopReady
    /\ inbox # <<>>
    /\ NextFrame.type = "CLOSE"
    /\ trace' = Append(trace, Event("end", nread + 1, "", JNone))
    /\ inbox' = Tail(inbox)
    /\ nread' = nread + 1
    /\ pc' = "closed"
    /\ UNCHANGED <<packets, arrived, inflight, http_vars, load_vars>>

\* result = await handler(**arguments), then the result is forwarded.
HandlerReturn ==
    \E h \in inflight, value \in HandlerResults :
        /\ iscoroutinefunction(packets[h.path].handler)
        /\ h.bound
        /\ trace' = Append(trace, Event("return", h.msg, h.path, value))
                        \o forward(h.msg, value)
        /\ inflight' = inflight \ {h}
        /\ pc' = "recv"
        /\ UNCHANGED <<packets, inbox, arrived, nread, http_vars, load_vars>>

\* async for result in handler(**arguments): one more value, forwarded.
HandlerYield ==
    \E h \in inflight : \E value \in YieldResults(h.yielded) :
        /\ isasyncgenfunction(packets[h.path].handler)
        /\ h.bound
        /\ h.yielded < MaxYield
        /\ trace' = Append(trace, Event("yield", h.msg, h.path, value))
                        \o forward(h.msg, value)
        /\ inflight' = (inflight \ {h}) \cup {[h EXCEPT !.yielded = @ + 1]}
        /\ UNCHANGED <<packets, inbox, arrived, nread, pc, http_vars, load_vars>>

\* Mutation of HandlerExhaust: the connection is closed when the generator
\* completes.
HandlerExhaustCloses ==
    \E h \in inflight :
        /\ isasyncgenfunction(packets[h.path].handler)
        /\ h.bound
        /\ trace' = Append(trace, Event("exhaust", h.msg, h.path, JNone))
        /\ inflight' = inflight \ {h}
        /\ pc' = "closed"
        /\ UNCHANGED <<packets, inbox, arrived, nread, http_vars, load_vars>>

\* The generator is exhausted: packet.handle and handle_message return.
HandlerExhaust ==
    \E h \in inflight :
        /\ isasyncgenfunction(packets[h.path].handler)
        /\ h.bound
        /\ trace' = Append(trace, Event("exhaust", h.msg, h.path, JNone))
        /\ inflight' = inflight \ {h}
        /\ pc' = "recv"
        /\ UNCHANGED <<packets, inbox, arrived, nread, http_vars, load_vars>>

\* The handler raises, or the call itself raises TypeError: nothing in
\* packet.handle, handle_message or handle catches it, and the exception
\* ends the connection's task.
HandlerRaise ==
    \E h \in inflight :
        /\ trace' = Append(trace, Event("raise", h.msg, h.path, JNone))
        /\ inflight' = {}
        /\ pc' = "crashed"
        /\ UNCHANGED <<packets, inbox, arrived, nread, http_vars, load_vars>>

-----------------------------------------------------------------------------
(* Routes (route.py).                                                      *)

\* Mutation of ACCEPT_POST_DATA: PATCH takes POST data too.
ACCEPT_POST_DATA_with_PATCH == {"POST", "PUT", "PATCH"}

\* ACCEPT_POST_DATA
ACCEPT_POST_DATA == {"POST", "PUT"}

\* A URI path is kept as the segments path.split("/") gives after the leading
\* empty one; a dynamic segment is one wrapped in braces, {name}.
Segment(name, dynamic) == [name |-> name, dynamic |-> dynamic]

\* A program: the parameter names of its signature, in order.
Program(params) == [present |-> TRUE, params |-> params]
NoProgram == [present |-> FALSE, params |-> <<>>]

\* Mutation of param_kind: the dynamic parts are looked at first.
param_kind_dynamic_first(name, path, method) ==
    IF \E i \in 1..Len(path) : path[i].dynamic /\ path[i].name = name
    THEN "DYNAMIC_PART"
    ELSE IF name = "self" THEN "INSTANCE"
    ELSE IF name = "request" THEN "REQUEST"
    ELSE IF method \in ACCEPT_POST_DATA THEN "QUERY_OR_POST"
    ELSE "QUERY"

\* The kind _extrapolate_program_params gives one parameter. A program taking
\* 'self' on a route with no program class raises ValueError instead.
param_kind(name, path, method) ==
    IF name = "self" THEN "INSTANCE"
    ELSE IF name = "request" THEN "REQUEST"
    ELSE IF \E i \in 1..Len(path) : path[i].dynamic /\ path[i].name = name
    THEN "DYNAMIC_PART"
    ELSE IF method \in ACCEPT_POST_DATA THEN "QUERY_OR_POST"
    ELSE "QUERY"

\* program_params, in the order of the signature.
extrapolate_program_params(path, method, program) ==
    [i \in 1..Len(program.params) |->
        [name |-> program.params[i], kind |-> param_kind(program.params[i], path, method)]]

\* PygWebRoute.__init__; template "" is None.
PygWebRoute(path, method, program, program_class, template) ==
    LET params == IF program.present
                  THEN extrapolate_program_params(path, method, program)
                  ELSE <<>>
    IN  [path |-> path, method |-> method, program |-> program,
         program_class |-> program_class, template |-> template,
         program_params |-> params,
         program_params_kind |-> {params[i].kind : i \in 1..Len(params)}]

\* The routes of the served application, as the router builds them: the
\* loader passes no program class.
Routes ==
    { PygWebRoute(<<Segment("hello", FALSE)>>, "GET",
                  Program(<<"name">>), FALSE, ""),
      PygWebRoute(<<Segment("signup", FALSE)>>, "POST",
                  Program(<<"name">>), FALSE, "pages/signup.jj2"),
      PygWebRoute(<<Segment("profile", FALSE)>>, "PUT",
                  Program(<<"request", "name">>), FALSE, ""),
      PygWebRoute(<<Segment("about", FALSE)>>, "GET",
                  NoProgram, FALSE, "pages/about.jj2"),
      PygWebRoute(<<Segment("ping", FALSE)>>, "GET",
                  Program(<<"request">>), FALSE, ""),
      PygWebRoute(<<Segment("user", FALSE), Segment("request", TRUE)>>, "GET",
                  Program(<<"request", "name">>), FALSE, ""),
      PygWebRoute(<<Segment("blog", FALSE), Segment("id", TRUE)>>, "GET",
                  Program(<<"request", "id">>), FALSE, "pages/blog/(id).jj2") }

NoRoute == PygWebRoute(<<>>, "", NoProgram, FALSE, "")

\* The requests a client makes: the query string and the POST body each hold
\* `name` or not, and the path matcher has bound `id`.
QueryStrings ==
    { JDict(<<>>), JDict(<<JPair(JStr("name"), JStr(""))>>),
      JDict(<<JPair(JStr("name"), JStr("bob"))>>) }
PostBodies == { JDict(<<>>), JDict(<<JPair(JStr("name"), JStr("alice"))>>) }
Requests ==
    { [query |-> q, post |-> b, match_info |-> JDict(<<JPair(JStr("id"), JStr("7"))>>)] :
        q \in QueryStrings, b \in PostBodies }
NoRequest == [query |-> JDict(<<>>), post |-> JDict(<<>>), match_info |-> JDict(<<>>)]

\* What the programs of the application return.
ProgramResults ==
    { JStr("<p>hi</p>"), JDict(<<JPair(JStr("title"), JStr("x"))>>), JNone }

\* The request object and the program class instance, as argument values.
RequestObject == [t |-> "Request", s |-> "", items |-> <<>>]
InstanceObject == [t |-> "instance", s |-> "", items |-> <<>>]

\* Python's `a or b`: a unless it is None or empty.
py_or(a, b) == IF a.t = "NoneType" \/ (a.t = "str" /\ a.s = "") THEN b ELSE a

\* The objects handle() holds in info, query and post before the parameters
\* are bound: each starts as an empty dict and is replaced when its kind is
\* among the route's kinds.
info_of(r, req) ==
    IF "DYNAMIC_PART" \in r.program_params_kind THEN req.match_info ELSE JDict(<<>>)
query_type(r) ==
    IF "QUERY" \in r.program_params_kind THEN "MultiDictProxy" ELSE "dict"
query_of(r, req) ==
    IF "QUERY" \in r.program_params_kind THEN req.query ELSE JDict(<<>>)

\* Whether an object of this type has a post() method: handle() calls
\* query.post(), and of aiohttp's objects only the request has one.
has_post(type) == type = "Request"

\* Mutation of sources_read: every source is read, whatever the route's
\* kinds.
sources_read_all(r) == {"match_info", "query", "post"}

\* The sources handle() has asked the request for.
sources_read(r) ==
    (IF "DYNAMIC_PART" \in r.program_params_kind THEN {"match_info"} ELSE {})
        \cup (IF "QUERY" \in r.program_params_kind THEN {"query"} ELSE {})
        \cup (IF "QUERY_OR_POST" \in r.program_params_kind /\ has_post(query_type(r))
              THEN {"post"} ELSE {})

\* The value bound to one parameter.
bind(param, r, req) ==
    CASE param.kind = "INSTANCE" ->
            IF r.program_class THEN InstanceObject ELSE JNone
      [] param.kind = "DYNAMIC_PART" -> dict_get(info_of(r, req), param.name)
      [] param.kind = "REQUEST" -> RequestObject
      [] param.kind = "QUERY" -> dict_get(query_of(r, req), param.name)
      [] param.kind = "QUERY_OR_POST" ->
            py_or(dict_get(query_of(r, req), param.name), dict_get(req.post, param.name))

\* kwargs, one entry per parameter of the program.
bind_all(r, req) ==
    JDict([i \in 1..Len(r.program_params) |->
        JPair(JStr(r.program_params[i].name), bind(r.program_params[i], r, req))])

\* What handle() returns or raises.
Response(text) == [kind |-> "Response", text |-> text, content_type |-> "text/html"]
ReturnsNone == [kind |-> "None", text |-> "", content_type |-> ""]
Raises(error) == [kind |-> "raise", text |-> error, content_type |-> ""]
NoResponse == [kind |-> "", text |-> "", content_type |-> ""]

\* The program's outcome: not called, returned a value, or raised.
NotCalled == [state |-> "not called", value |-> JNone]
Returned(value) == [state |-> "returned", value |-> value]
Raised == [state |-> "raised", value |-> JNone]

\* template.render_async(**variables), the external renderer's text.
render(template, variables) == "<html " \o template \o " " \o json_dumps(variables) \o ">"

\* The templates the tail of handle() fetches for a result.
templates_fetched(r, value) ==
    IF isinstance_str(value) THEN <<>>
    ELSE IF r.template # "" THEN <<r.template>>
    ELSE <<>>

\* A tail that renders the attached template before it looks at the result.
respond_template_first(r, value) ==
    IF r.template # "" THEN Response(render(r.template, JDict(<<>>)))
    ELSE IF isinstance_str(value) THEN Response(value.s)
    ELSE ReturnsNone

\* The tail of handle(), after the program has returned `value`.
respond(r, value) ==
    IF isinstance_str(value) THEN Response(value.s)
    ELSE IF r.template # ""
    THEN IF isinstance_dict(value) THEN Response(render(r.template, value))
         ELSE Raises("TypeError")
    ELSE ReturnsNone

-----------------------------------------------------------------------------
(* The HTTP dispatch engine: PygWebRoute.handle (route.py).                *)

\* The transport matches a request to a route and calls route.handle(request).
HttpReceive ==
    /\ http_pc = "idle"
    /\ \E r \in Routes, req \in Requests : route' = r /\ request' = req
    /\ http_pc' = "received"
    /\ UNCHANGED <<reads, kwargs, result, lookups, response, ws_vars, load_vars>>

\* `if self.program:` is false: handle() falls off its end.
HttpNoProgram ==
    /\ http_pc = "received"
    /\ ~route.program.present
    /\ response' = ReturnsNone
    /\ http_pc' = "done"
    /\ UNCHANGED <<route, request, reads, kwargs, result, lookups, ws_vars, load_vars>>

\* The sources are materialised and every parameter is bound.
HttpBind ==
    /\ http_pc = "received"
    /\ route.program.present
    /\ "QUERY_OR_POST" \in route.program_params_kind => has_post(query_type(route))
    /\ reads' = sources_read(route)
    /\ kwargs' = bind_all(route, request)
    /\ http_pc' = "bound"
    /\ UNCHANGED <<route, request, result, lookups, response, ws_vars, load_vars>>

\* `post = await query.post()` on an object that has no post().
HttpBindFails ==
    /\ http_pc = "received"
    /\ route.program.present
    /\ "QUERY_OR_POST" \in route.program_params_kind
    /\ ~has_post(query_type(route))
    /\ reads' = sources_read(route)
    /\ response' = Raises("AttributeError")
    /\ http_pc' = "done"
    /\ UNCHANGED <<route, request, kwargs, result, lookups, ws_vars, load_vars>>

\* result = await self.program(**kwargs)
HttpInvoke ==
    /\ http_pc = "bound"
    /\ \E value \in ProgramResults : result' = Returned(value)
    /\ http_pc' = "executed"
    /\ UNCHANGED <<route, request, reads, kwargs, lookups, response, ws_vars, load_vars>>

\* The program raises: handle() does not catch it.
HttpProgramRaises ==
    /\ http_pc = "bound"
    /\ result' = Raised
    /\ response' = Raises("Exception")
    /\ http_pc' = "done"
    /\ UNCHANGED <<route, request, reads, kwargs, lookups, ws_vars, load_vars>>

\* The tail of handle(): the string, the rendered template, or nothing.
HttpRespond ==
    /\ http_pc = "executed"
    /\ lookups' = lookups \o templates_fetched(route, result.value)
    /\ response' = respond(route, result.value)
    /\ http_pc' = "done"
    /\ UNCHANGED <<route, request, reads, kwargs, result, ws_vars, load_vars>>

-----------------------------------------------------------------------------
(* File-system paths and the paths compiled from them (router.py,          *)
(* websocket.py).                                                          *)
(*                                                                         *)
(* A name is the sequence of its pieces: each of the characters _ ( ) { }  *)
(* / and . is a piece of its own and a run of other characters is one      *)
(* piece, so that str.startswith, str.endswith and slicing can be computed.*)

startswith(name, piece) == name # <<>> /\ name[1] = piece
endswith(name, piece) == name # <<>> /\ name[Len(name)] = piece

\* The Python string a sequence of pieces spells.
RECURSIVE Text(_)
Text(pieces) == IF pieces = <<>> THEN "" ELSE pieces[1] \o Text(Tail(pieces))

\* sep.join(parts), on pieces
RECURSIVE join(_, _)
join(parts, sep) ==
    IF parts = <<>> THEN <<>>
    ELSE IF Len(parts) = 1 THEN parts[1]
    ELSE parts[1] \o <<sep>> \o join(Tail(parts), sep)

\* text.split(sep), on pieces
RECURSIVE split(_, _)
split(pieces, sep) ==
    IF \A i \in 1..Len(pieces) : pieces[i] # sep THEN <<pieces>>
    ELSE LET i == CHOOSE k \in 1..Len(pieces) :
                    pieces[k] = sep /\ \A j \in 1..(k - 1) : pieces[j] # sep
         IN  <<SubSeq(pieces, 1, i - 1)>> \o split(SubSeq(pieces, i + 1, Len(pieces)), sep)

\* A path relative to one of the three directories of base_dir: the names
\* of its directories and the stem of its last part.
RelPath(dirs, stem) == [dirs |-> dirs, stem |-> stem]

\* path.parent, as relative_path.parent is passed to _make_path_from: the
\* parent of a top-level file is Path("."), whose stem is empty.
path_parent(path) ==
    IF path.dirs = <<>> THEN RelPath(<<>>, <<>>)
    ELSE RelPath(SubSeq(path.dirs, 1, Len(path.dirs) - 1), path.dirs[Len(path.dirs)])

\* Mutation of dynamic_part: the part is left as the file system spells it.
dynamic_part_kept(part) == part

\* "Replace dynamic URI parts": (name) becomes {name}.
dynamic_part(part) ==
    IF startswith(part, "(") /\ endswith(part, ")")
    THEN <<"{">> \o SubSeq(part, 2, Len(part) - 1) \o <<"}">>
    ELSE part

\* The parts _make_path_from joins: the directories, then the stem, or an
\* empty part for an index file, each with its dynamic marker replaced.
uri_parts(path) ==
    LET parts == path.dirs \o (IF path.stem = <<"index">> THEN << <<>> >> ELSE <<path.stem>>)
    IN  [i \in 1..Len(parts) |-> dynamic_part(parts[i])]

\* Mutation of _make_path_from: an index file adds a part of its own after
\* the directories even at the top level.
make_path_from_doubled(path) ==
    <<"/">> \o join(uri_parts(path), "/") \o (IF path.stem = <<"index">> THEN <<"/">> ELSE <<>>)

\* PygWebRouter._make_path_from
make_path_from(path) == <<"/">> \o join(uri_parts(path), "/")

\* Mutation of _make_path_for: the symbol's name comes first.
make_path_for_name_first(path, name) ==
    join(<<name>> \o SelectSeq(path.dirs, LAMBDA part : part # <<"index">>)
            \o (IF path.stem # <<"index">> THEN <<path.stem>> ELSE <<>>), ".")

\* PygWebWSRouter._make_path_for
make_path_for(path, name) ==
    join(SelectSeq(path.dirs, LAMBDA part : part # <<"index">>)
            \o (IF path.stem # <<"index">> THEN <<path.stem>> ELSE <<>>)
            \o <<name>>, ".")

\* self.path.split("/") in _extrapolate_program_params, after the leading
\* empty part: a part wrapped in braces is a dynamic part named by part[1:-1].
uri_segments(uri) ==
    LET parts == Tail(split(uri, "/"))
    IN  [i \in 1..Len(parts) |->
            IF startswith(parts[i], "{") /\ endswith(parts[i], "}")
            THEN Segment(Text(SubSeq(parts[i], 2, Len(parts[i]) - 1)), TRUE)
            ELSE Segment(Text(parts[i]), FALSE)]

-----------------------------------------------------------------------------
(* The units of an application and the loaders' operations on the tables   *)
(* (router.py, websocket.py).                                              *)

\* WEB_METHODS, WEB_METHODS_TO_ADD
WEB_METHODS == {"DELETE", "GET", "HEAD", "OPTIONS", "PATCH", "POST", "PUT"}
WEB_METHODS_TO_ADD == {"GET", "POST"}

\* method.lower() and stem.upper()
str_lower(s) ==
    CASE s = "DELETE" -> "delete" [] s = "GET" -> "get" [] s = "HEAD" -> "head"
      [] s = "OPTIONS" -> "options" [] s = "PATCH" -> "patch" [] s = "POST" -> "post"
      [] s = "PUT" -> "put" [] OTHER -> s
str_upper(s) ==
    CASE s = "delete" -> "DELETE" [] s = "get" -> "GET" [] s = "head" -> "HEAD"
      [] s = "options" -> "OPTIONS" [] s = "patch" -> "PATCH" [] s = "post" -> "POST"
      [] s = "put" -> "PUT" [] OTHER -> s

\* A symbol of an executed module: its name, what kind of object it is, its
\* parameters, and whether it was defined in the module or imported into it.
Symbol(name, kind, params, own) ==
    [name |-> name, kind |-> kind, params |-> params, own |-> own]

\* A file under base_dir: the directory it is in (programs, pages or
\* packets), its path relative to it, its suffix and, for a Python file,
\* the symbols its execution defines.
File(root, dirs, stem, suffix, symbols) ==
    [root |-> root, path |-> RelPath(dirs, stem), suffix |-> suffix, symbols |-> symbols]

\* file_path.name, and the names of file_path.parents: the directories
\* below the loader's directory, that directory, and the parts of base_dir.
file_name(file) == file.path.stem \o file.suffix
parent_names(file, base) ==
    {base[i] : i \in 1..Len(base)} \cup {<<file.root>>}
        \cup {file.path.dirs[i] : i \in 1..Len(file.path.dirs)}

\* Mutation of is_private: only the file's own name is looked at.
is_private_by_name(file, base) == startswith(file_name(file), "_")

\* The test with which the three loaders skip a file.
is_private(file, base) ==
    \/ startswith(file_name(file), "_")
    \/ \E name \in parent_names(file, base) : startswith(name, "_")

\* directory.rglob("*" + suffix)
rglob(files, root, suffix) == {f \in files : f.root = root /\ f.suffix = suffix}

\* file_path.as_posix(), relative to base_dir: the name of a template.
as_posix(file) == Text(join(<<<<file.root>>>> \o file.path.dirs \o <<file_name(file)>>, "/"))

\* A key of the route table; the path is kept as PygWebRoute keeps it.
RouteKey(method, uri) == <<method, uri_segments(uri)>>

\* The methods for which a program module defines a handler:
\* getattr(module, method.lower(), None) is not None.
handler_of(file, method) ==
    CHOOSE s \in file.symbols : Text(s.name) = str_lower(method)
program_methods(file) ==
    {m \in WEB_METHODS : \E s \in file.symbols : Text(s.name) = str_lower(m)}

\* Mutation of raises_ValueError: a program that takes 'self' is accepted.
raises_nothing(program, program_class) == FALSE

\* PygWebRoute.__init__ raises ValueError: the program takes 'self' and the
\* route has no program class.
raises_ValueError(program, program_class) ==
    /\ program.present
    /\ ~program_class
    /\ \E i \in 1..Len(program.params) : program.params[i] = "self"
bad_methods(file) ==
    {m \in program_methods(file) :
        raises_ValueError(Program(handler_of(file, m).params), FALSE)}

\* The table after _load_program has created the routes of `methods`.
register_programs(table, file, methods) ==
    LET uri == make_path_from(file.path)
        new == {RouteKey(m, uri) : m \in methods}
    IN  [k \in DOMAIN table \cup new |->
            IF k \in new
            THEN PygWebRoute(k[2], k[1], Program(handler_of(file, k[1]).params), FALSE, "")
            ELSE table[k]]

\* PygWebRouter._load_program, for a module all of whose routes can be built.
load_program(table, file) == register_programs(table, file, program_methods(file))

\* Mutation of template_methods: every template goes to GET and POST.
template_methods_default(file) == WEB_METHODS_TO_ADD

\* The path and the methods a template targets.
template_path(file) ==
    IF Text(file.path.stem) \in WEB_METHODS
    THEN make_path_from(path_parent(file.path))
    ELSE make_path_from(file.path)
template_methods(file) ==
    IF Text(file.path.stem) \in WEB_METHODS
    THEN {str_upper(Text(file.path.stem))}
    ELSE WEB_METHODS_TO_ADD

\* Mutation of load_template: a new route is given the path compiled from
\* the template's own path, whatever key it is stored under.
load_template_own_path(table, file) ==
    LET new == {RouteKey(m, template_path(file)) : m \in template_methods(file)}
    IN  [k \in DOMAIN table \cup new |->
            IF k \in new
            THEN IF k \in DOMAIN table
                 THEN [table[k] EXCEPT !.template = as_posix(file)]
                 ELSE PygWebRoute(uri_segments(make_path_from(file.path)), k[1],
                                  NoProgram, FALSE, as_posix(file))
            ELSE table[k]]

\* PygWebRouter._load_template
load_template(table, file) ==
    LET new == {RouteKey(m, template_path(file)) : m \in template_methods(file)}
    IN  [k \in DOMAIN table \cup new |->
            IF k \in new
            THEN IF k \in DOMAIN table
                 THEN [table[k] EXCEPT !.template = as_posix(file)]
                 ELSE PygWebRoute(k[2], k[1], NoProgram, FALSE, as_posix(file))
            ELSE table[k]]

\* The symbols of a packet module that become packets.
packet_symbols(file) ==
    {s \in file.symbols :
        /\ ~startswith(s.name, "_")
        /\ s.own
        /\ s.kind \in {"coroutine", "asyncgen"}}
packet_path(file, symbol) == Text(make_path_for(file.path, symbol.name))

\* PygWebWSRouter._load_packet
load_packet(table, file) ==
    LET new == {packet_path(file, s) : s \in packet_symbols(file)}
    IN  [p \in DOMAIN table \cup new |->
            IF p \in new
            THEN LET s == CHOOSE x \in packet_symbols(file) : packet_path(file, x) = p
                 IN  from_coroutine(p, [path |-> p, kind |-> s.kind, params |-> s.params])
            ELSE table[p]]

-----------------------------------------------------------------------------
(* The applications the loaders are run on.                                *)

py == <<".", "py">>
jj2 == <<".", "jj2">>

\* A program handler: an `async def` of the module with these parameters.
Handler(name, params) == Symbol(<<name>>, "coroutine", params, TRUE)

\* The files the applications are made of: programs/, pages/ and packets/.
Units ==
    [ ProgramIndex |->
        File("programs", <<>>, <<"index">>, py, {Handler("get", <<"request">>)}),
      ProgramBlogId |->
        File("programs", << <<"blog">> >>, <<"(", "id", ")">>, py,
             {Handler("get", <<"request", "id">>)}),
      ProgramSearch |->
        File("programs", <<>>, <<"search">>, py,
             {Handler(str_lower(m), <<"q">>) : m \in WEB_METHODS}),
      ProgramAdminUsers |->
        File("programs", << <<"_", "admin">> >>, <<"users">>, py, {Handler("get", <<>>)}),
      ProgramUtil |->
        File("programs", <<>>, <<"_", "util">>, py, {Handler("get", <<>>)}),
      ProgramAccount |->
        File("programs", <<>>, <<"account">>, py,
             {Handler("get", <<"self">>), Handler("post", <<"name">>)}),
      ProgramNotes |-> File("programs", <<>>, <<"notes">>, <<".", "txt">>, {}),
      PageIndex |-> File("pages", <<>>, <<"index">>, jj2, {}),
      PageBlogId |-> File("pages", << <<"blog">> >>, <<"(", "id", ")">>, jj2, {}),
      PageSearchPut |-> File("pages", << <<"search">> >>, <<"PUT">>, jj2, {}),
      PageAboutGet |-> File("pages", << <<"about">> >>, <<"GET">>, jj2, {}),
      PageDocsGet |-> File("pages", << <<"docs">> >>, <<"get">>, jj2, {}),
      PageDraft |-> File("pages", << <<"_", "drafts">> >>, <<"new">>, jj2, {}),
      PageBase |-> File("pages", <<>>, <<"_", "base">>, jj2, {}),
      PacketIndex |->
        File("packets", <<>>, <<"index">>, py,
             {Symbol(<<"echo">>, "coroutine", <<Param("text", "str", FALSE, JNone)>>, TRUE),
              Symbol(<<"say">>, "coroutine", <<Param("text", "", FALSE, JNone)>>, TRUE)}),
      PacketChat |->
        File("packets", <<>>, <<"chat">>, py,
             {Symbol(<<"stream">>, "asyncgen", <<Param("n", "int", TRUE, JInt("3"))>>, TRUE),
              Symbol(<<"_", "helper">>, "coroutine", <<>>, TRUE),
              Symbol(<<"now">>, "function", <<>>, TRUE),
              Symbol(<<"sleep">>, "coroutine", <<>>, FALSE)}),
      PacketRoom |->
        File("packets", << <<"index">>, <<"room">> >>, <<"index">>, py,
             {Symbol(<<"join">>, "coroutine", <<Param("user", "str", FALSE, JNone)>>, TRUE)}),
      PacketRoomFlat |->
        File("packets", <<>>, <<"room">>, py,
             {Symbol(<<"join">>, "coroutine",
                     <<Param("user", "str", FALSE, JNone),
                       Param("room", "str", FALSE, JNone)>>, TRUE)}),
      PacketPrivate |->
        File("packets", <<>>, <<"_", "private">>, py,
             {Symbol(<<"ping">>, "coroutine", <<>>, TRUE)}),
      PacketLib |->
        File("packets", << <<"_", "lib">> >>, <<"tools">>, py,
             {Symbol(<<"ping">>, "coroutine", <<>>, TRUE)}) ]

\* An application whose every program can be built, and the same
\* application with a program that takes 'self'.
AppTree == {Units[name] : name \in DOMAIN Units \ {"ProgramAccount", "PacketRoomFlat"}}
BrokenTree == AppTree \cup {Units.ProgramAccount}
Trees == {AppTree, BrokenTree}

\* base_dir: a directory, and one below a directory whose name starts with _.
BaseDirs == { << <<"app">> >>, << <<"_", "sites">>, <<"app">> >> }

\* The programs and pages the two registering operations are applied to.
MergeTree ==
    {Units[name] : name \in {"ProgramIndex", "ProgramBlogId", "ProgramSearch",
                              "PageIndex", "PageBlogId", "PageSearchPut", "PageAboutGet"}}

-----------------------------------------------------------------------------
(* The loaders: PygWebServer.serve / load (server.py), PygWebRouter.load   *)
(* (router.py), PygWebWSRouter.load (websocket.py).                        *)

\* The files the loop at load_pc is iterating over.
Pending(root, suffix) == rglob(tree, root, suffix) \ visited

\* serve() finds the server not loaded and calls load(), or load() is
\* called directly; router.load starts with the programs.
EnterLoad ==
    /\ load_pc = "init"
    /\ ~loaded
    /\ \E e \in {"serve", "load"} : entry' = e
    /\ load_pc' = "programs"
    /\ UNCHANGED <<base_dir, tree, visited, executed, routes, loaded, serving, run_vars,
                   ws_vars, http_vars>>

\* _load_programs: the file is private, `continue`.
SkipProgram ==
    /\ load_pc = "programs"
    /\ \E file \in Pending("programs", py) :
        /\ is_private(file, base_dir)
        /\ visited' = visited \cup {file}
    /\ UNCHANGED <<base_dir, tree, load_pc, entry, executed, routes, loaded, serving, run_vars,
                   ws_vars, http_vars>>

\* _load_programs, _load_program: the module is executed and a route is
\* created for each of its handlers.
LoadProgram ==
    /\ load_pc = "programs"
    /\ \E file \in Pending("programs", py) :
        /\ ~is_private(file, base_dir)
        /\ bad_methods(file) = {}
        /\ visited' = visited \cup {file}
        /\ executed' = executed \cup {file}
        /\ routes' = load_program(routes, file)
    /\ UNCHANGED <<base_dir, tree, load_pc, entry, loaded, serving, run_vars, ws_vars, http_vars>>

\* _load_program: PygWebRoute raises ValueError for one of the handlers.
\* WEB_METHODS is a set, so any of the module's other handlers may have
\* had its route created before that one was reached. Nothing catches the
\* error: it leaves load(), and serve() if serve() called it.
LoadProgramFails ==
    /\ load_pc = "programs"
    /\ \E file \in Pending("programs", py) :
        /\ ~is_private(file, base_dir)
        /\ bad_methods(file) # {}
        /\ visited' = visited \cup {file}
        /\ executed' = executed \cup {file}
        /\ \E before \in SUBSET (program_methods(file) \ bad_methods(file)) :
            routes' = register_programs(routes, file, before)
    /\ load_pc' = "failed"
    /\ UNCHANGED <<base_dir, tree, entry, loaded, serving, run_vars, ws_vars, http_vars>>

\* rglob is exhausted: router.load goes on with the pages.
EndPrograms ==
    /\ load_pc = "programs"
    /\ Pending("programs", py) = {}
    /\ load_pc' = "pages"
    /\ UNCHANGED <<base_dir, tree, entry, visited, executed, routes, loaded, serving, run_vars,
                   ws_vars, http_vars>>

\* _load_templates: the file is private, `continue`.
SkipTemplate ==
    /\ load_pc = "pages"
    /\ \E file \in Pending("pages", jj2) :
        /\ is_private(file, base_dir)
        /\ visited' = visited \cup {file}
    /\ UNCHANGED <<base_dir, tree, load_pc, entry, executed, routes, loaded, serving, run_vars,
                   ws_vars, http_vars>>

\* _load_templates, _load_template
LoadTemplate ==
    /\ load_pc = "pages"
    /\ \E file \in Pending("pages", jj2) :
        /\ ~is_private(file, base_dir)
        /\ visited' = visited \cup {file}
        /\ executed' = executed \cup {file}
        /\ routes' = load_template(routes, file)
    /\ UNCHANGED <<base_dir, tree, load_pc, entry, loaded, serving, run_vars, ws_vars, http_vars>>

\* rglob is exhausted: router.load returns and ws_router.load starts.
EndPages ==
    /\ load_pc = "pages"
    /\ Pending("pages", jj2) = {}
    /\ load_pc' = "packets"
    /\ UNCHANGED <<base_dir, tree, entry, visited, executed, routes, loaded, serving, run_vars,
                   ws_vars, http_vars>>

\* PygWebWSRouter.load: the file is private, `continue`.
SkipPacket ==
    /\ load_pc = "packets"
    /\ \E file \in Pending("packets", py) :
        /\ is_private(file, base_dir)
        /\ visited' = visited \cup {file}
    /\ UNCHANGED <<base_dir, tree, load_pc, entry, executed, routes, loaded, serving, run_vars,
                   ws_vars, http_vars>>

\* PygWebWSRouter.load, _load_packet
LoadPacket ==
    /\ load_pc = "packets"
    /\ \E file \in Pending("packets", py) :
        /\ ~is_private(file, base_dir)
        /\ visited' = visited \cup {file}
        /\ executed' = executed \cup {file}
        /\ packets' = load_packet(packets, file)
    /\ UNCHANGED <<base_dir, tree, load_pc, entry, routes, loaded, serving, run_vars,
                   inbox, arrived, nread, pc, inflight, trace, http_vars>>

\* rglob is exhausted: load() hands the routes to the application and sets
\* _loaded; serve() then creates the serving task.
FinishLoad ==
    /\ load_pc = "packets"
    /\ Pending("packets", py) = {}
    /\ loaded' = TRUE
    /\ serving' = (entry = "serve")
    /\ serving_task' = IF entry = "serve" THEN "pending" ELSE serving_task
    /\ awaiting' = (entry = "serve")
    /\ load_pc' = "loaded"
    /\ UNCHANGED <<base_dir, tree, entry, visited, executed, routes, listening, stop_event,
                   ws_vars, http_vars>>

\* serve() on a server that load() has loaded: the serving task is created.
ServeLoaded ==
    /\ load_pc = "loaded"
    /\ loaded
    /\ ~serving
    /\ entry' = "serve"
    /\ serving' = TRUE
    /\ serving_task' = "pending"
    /\ awaiting' = TRUE
    /\ UNCHANGED <<base_dir, tree, load_pc, visited, executed, routes, loaded,
                   listening, stop_event, ws_vars, http_vars>>

\* _serve, serve_web: the runner is set up, the site is started, and
\* serve_web clears serving_task before it returns.
ListenerStarts ==
    /\ serving_task = "pending"
    /\ listening' = TRUE
    /\ serving_task' = "None"
    /\ UNCHANGED <<base_dir, tree, load_pc, entry, visited, executed, routes, loaded,
                   serving, stop_event, awaiting, ws_vars, http_vars>>

\* cancel() on a started server: the task is cancelled if serving_task
\* holds one, which makes the await it is at in serve_web raise
\* CancelledError before the site is started; stop_event is set.
Cancel ==
    /\ serving
    /\ serving_task' = IF serving_task = "pending" THEN "cancelled" ELSE serving_task
    /\ stop_event' = TRUE
    /\ UNCHANGED <<base_dir, tree, load_pc, entry, visited, executed, routes, loaded,
                   serving, listening, awaiting, ws_vars, http_vars>>

\* serve(): stop_event.wait() returns once the event is set.
ServeReturns ==
    /\ awaiting
    /\ stop_event
    /\ awaiting' = FALSE
    /\ UNCHANGED <<base_dir, tree, load_pc, entry, visited, executed, routes, loaded,
                   serving, serving_task, listening, stop_event, ws_vars, http_vars>>

\* Mutation of LoadLoaded: load() has no `if self._loaded: return`, and
\* the loaders start again on empty tables.
LoadLoadedRebuilds ==
    /\ load_pc = "loaded"
    /\ loaded
    /\ entry' = "load"
    /\ load_pc' = "programs"
    /\ visited' = {}
    /\ executed' = {}
    /\ routes' = <<>>
    /\ packets' = <<>>
    /\ UNCHANGED <<base_dir, tree, loaded, serving, run_vars,
                   inbox, arrived, nread, pc, inflight, trace, http_vars>>

\* load() on a loaded server: `if self._loaded: return`.
LoadLoaded ==
    /\ load_pc = "loaded"
    /\ loaded
    /\ entry' = "load"
    /\ UNCHANGED <<base_dir, tree, load_pc, visited, executed, routes, loaded, serving, run_vars,
                   ws_vars, http_vars>>

\* _load_program applied to a program of the tree, whatever has been
\* registered before.
RegisterProgram ==
    /\ load_pc = "init"
    /\ \E file \in Pending("programs", py) :
        /\ visited' = visited \cup {file}
        /\ executed' = executed \cup {file}
        /\ routes' = load_program(routes, file)
    /\ UNCHANGED <<base_dir, tree, load_pc, entry, loaded, serving, run_vars, ws_vars, http_vars>>

\* _load_template applied to a page of the tree, whatever has been
\* registered before.
RegisterTemplate ==
    /\ load_pc = "init"
    /\ \E file \in Pending("pages", jj2) :
        /\ visited' = visited \cup {file}
        /\ executed' = executed \cup {file}
        /\ routes' = load_template(routes, file)
    /\ UNCHANGED <<base_dir, tree, load_pc, entry, loaded, serving, run_vars, ws_vars, http_vars>>

-----------------------------------------------------------------------------
(* Specifications.                                                         *)

InitWSVars ==
    /\ packets = PacketTable
    /\ inbox = <<>>
    /\ arrived = <<>>
    /\ nread = 0
    /\ pc = "recv"
    /\ inflight = {}
    /\ trace = <<>>

InitHTTPVars ==
    /\ http_pc = "idle"
    /\ route = NoRoute
    /\ request = NoRequest
    /\ reads = {}
    /\ kwargs = JDict(<<>>)
    /\ result = NotCalled
    /\ lookups = <<>>
    /\ response = NoResponse

\* The application being served: serve() has loaded it.
InitLoadVars ==
    /\ base_dir = << <<"app">> >>
    /\ tree = {}
    /\ load_pc = "loaded"
    /\ entry = "serve"
    /\ visited = {}
    /\ executed = {}
    /\ routes = [k \in {<<r.method, r.path>> : r \in Routes} |->
                    CHOOSE r \in Routes : <<r.method, r.path>> = k]
    /\ loaded = TRUE
    /\ serving = TRUE
    /\ serving_task = "None"
    /\ listening = TRUE
    /\ stop_event = FALSE
    /\ awaiting = TRUE

Init == InitWSVars /\ InitHTTPVars /\ InitLoadVars

\* A server that has just been constructed on one of the applications.
InitLoad ==
    /\ base_dir \in BaseDirs
    /\ tree \in Trees
    /\ load_pc = "init"
    /\ entry = ""
    /\ visited = {}
    /\ executed = {}
    /\ routes = <<>>
    /\ loaded = FALSE
    /\ serving = FALSE
    /\ serving_task = "None"
    /\ listening = FALSE
    /\ stop_event = FALSE
    /\ awaiting = FALSE
    /\ packets = <<>>
    /\ inbox = <<>>
    /\ arrived = <<>>
    /\ nread = 0
    /\ pc = "recv"
    /\ inflight = {}
    /\ trace = <<>>
    /\ InitHTTPVars

\* A router that has just been constructed, and the programs and pages its
\* registering operations are applied to.
InitMerge ==
    /\ base_dir = << <<"app">> >>
    /\ tree = MergeTree
    /\ load_pc = "init"
    /\ entry = ""
    /\ visited = {}
    /\ executed = {}
    /\ routes = <<>>
    /\ loaded = FALSE
    /\ serving = FALSE
    /\ serving_task = "None"
    /\ listening = FALSE
    /\ stop_event = FALSE
    /\ awaiting = FALSE
    /\ InitWSVars
    /\ InitHTTPVars

\* A server that has just been constructed on an application that has
\* packets only, two of them in units whose paths compile to the same
\* packet path: packets/room.py and packets/index/room/index.py.
InitPackets ==
    /\ base_dir \in BaseDirs
    /\ tree = {f \in AppTree : f.root = "packets"} \cup {Units.PacketRoomFlat}
    /\ load_pc = "init"
    /\ entry = ""
    /\ visited = {}
    /\ executed = {}
    /\ routes = <<>>
    /\ loaded = FALSE
    /\ serving = FALSE
    /\ serving_task = "None"
    /\ listening = FALSE
    /\ stop_event = FALSE
    /\ awaiting = FALSE
    /\ packets = <<>>
    /\ inbox = <<>>
    /\ arrived = <<>>
    /\ nread = 0
    /\ pc = "recv"
    /\ inflight = {}
    /\ trace = <<>>
    /\ InitHTTPVars

NextWS ==
    \/ ClientSend
    \/ ReadText
    \/ SkipFrame
    \/ ReadError
    \/ StreamEnd
    \/ HandlerReturn
    \/ HandlerYield
    \/ HandlerExhaust
    \/ HandlerRaise

NextHTTP ==
    \/ HttpReceive
    \/ HttpNoProgram
    \/ HttpBind
    \/ HttpBindFails
    \/ HttpInvoke
    \/ HttpProgramRaises
    \/ HttpRespond

NextLoad ==
    \/ EnterLoad
    \/ SkipProgram
    \/ LoadProgram
    \/ LoadProgramFails
    \/ EndPrograms
    \/ SkipTemplate
    \/ LoadTemplate
    \/ EndPages
    \/ SkipPacket
    \/ LoadPacket
    \/ FinishLoad
    \/ ServeLoaded
    \/ LoadLoaded
    \/ ListenerStarts
    \/ Cancel
    \/ ServeReturns

NextMerge ==
    \/ RegisterProgram
    \/ RegisterTemplate

NextPackets ==
    \/ EnterLoad
    \/ EndPrograms
    \/ EndPages
    \/ SkipPacket
    \/ LoadPacket
    \/ FinishLoad
    \/ ServeLoaded
    \/ LoadLoaded

\* One WebSocket connection.
SpecWS == Init /\ [][NextWS]_vars

\* One HTTP request, from its arrival to what handle() returns or raises.
SpecHTTP == Init /\ [][NextHTTP]_vars

\* Calls of serve() and load() on a new server.
SpecLoad == InitLoad /\ [][NextLoad]_vars

\* The router's registering operations, in any order.
SpecMerge == InitMerge /\ [][NextMerge]_vars

\* Calls of serve() and load() on a new server whose application has
\* packets only.
SpecPackets == InitPackets /\ [][NextPackets]_vars

Next == NextWS \/ NextHTTP

Spec == Init /\ [][Next]_vars

-----------------------------------------------------------------------------
(* Reading the trace of a connection.                                      *)

\* The events of frame number k of a given kind, in order.
EventsOf(k, ev) == SelectSeq(trace, LAMBDA e : e.msg = k /\ e.ev = ev)

\* The frames sent while frame number k was processed, in order.
SentFor(k) == [i \in 1..Len(EventsOf(k, "send")) |-> EventsOf(k, "send")[i].data]

\* The position of the last event of frame number k.
LastOf(k) == CHOOSE i \in 1..Len(trace) :
                /\ trace[i].msg = k
                /\ \A j \in (i + 1)..Len(trace) : trace[j].msg # k

\* The events with which the read loop takes a frame from the transport.
LoopEvents == {"read", "skip", "break", "end"}

\* After the event at position i the connection is open and listening: the
\* task is back at `async for msg in ws`, and if the trace goes on, it goes
\* on with the loop taking the next frame.
ListeningAfter(i) ==
    IF i = Len(trace)
    THEN pc = "recv"
    ELSE trace[i + 1].ev \in LoopEvents /\ trace[i + 1].msg = trace[i].msg + 1

\* The frame json.dumps writes for each result of the handlers.
FrameOfResult(value) ==
    CASE value = JDict(<<JPair(JStr("text"), JStr("hi"))>>) -> "{\"text\": \"hi\"}"
      [] value = JDict(<<JPair(JStr("i"), JInt("0"))>>) -> "{\"i\": 0}"
      [] value = JDict(<<JPair(JStr("i"), JInt("1"))>>) -> "{\"i\": 1}"
      [] value = JDict(<<JPair(JStr("i"), JInt("2"))>>) -> "{\"i\": 2}"
      [] OTHER -> "null"

\* The frame numbers whose message invoked a streaming / single-result handler.
InvokedWith(kind) ==
    {trace[i].msg : i \in {j \in 1..Len(trace) :
        /\ trace[j].ev = "invoke"
        /\ \E h \in Handlers : h.path = trace[j].data /\ h.kind = kind}}

-----------------------------------------------------------------------------
(* C1: for a streaming (async-generator) handler, one inbound message      *)
(* makes the engine send one frame per yielded mapping, in yield order,    *)
(* each right after its yield and with nothing else in between; a yielded  *)
(* value that is not a mapping sends nothing; when the generator is        *)
(* exhausted the connection is open and the loop goes on with the next     *)
(* frame.                                                                   *)
C1_MappingYields(k) ==
    SelectSeq(EventsOf(k, "yield"), LAMBDA e : e.value.t = "dict")

C1_StreamingFrames ==
    \A k \in InvokedWith("asyncgen") :
        /\ SentFor(k) = [i \in 1..Len(C1_MappingYields(k)) |->
                            FrameOfResult(C1_MappingYields(k)[i].value)]
        /\ \A i \in 1..Len(trace) :
            /\ (trace[i].msg = k /\ trace[i].ev = "send") =>
                    /\ trace[i - 1].ev = "yield"
                    /\ trace[i - 1].msg = k
                    /\ trace[i].data = FrameOfResult(trace[i - 1].value)
            /\ (trace[i].msg = k /\ trace[i].ev = "invoke") =>
                    \A j \in (i + 1)..LastOf(k) :
                        trace[j].msg = k /\ trace[j].ev \in {"yield", "send", "exhaust", "raise"}
            /\ (trace[i].msg = k /\ trace[i].ev = "exhaust") => ListeningAfter(i)

\* A streaming handler yielded {"i": 0} and {"i": 1} and was exhausted, both
\* frames went out in that order, and the next message invoked a handler.
C1_Witness ==
    /\ 1 \in InvokedWith("asyncgen")
    /\ Len(EventsOf(1, "exhaust")) = 1
    /\ SentFor(1) = <<"{\"i\": 0}", "{\"i\": 1}">>
    /\ Len(EventsOf(2, "invoke")) = 1

(* C2: for a single-result (coroutine) handler, one valid inbound message  *)
(* invokes the handler exactly once; a mapping result is sent as exactly   *)
(* one frame carrying it, any other result sends no frame.                 *)
C2_ValidEcho == "[\"echo\", {\"text\": \"hi\"}]"

C2_SingleResult ==
    \A i \in 1..Len(trace) :
        (trace[i].ev = "read" /\ trace[i].data = C2_ValidEcho) =>
            LET k == trace[i].msg
            IN  /\ EventsOf(k, "invoke") =
                       <<Event("invoke", k, "echo",
                               JDict(<<JPair(JStr("text"), JStr("hi"))>>))>>
                /\ Len(EventsOf(k, "return")) <= 1
                /\ SentFor(k) =
                       IF /\ EventsOf(k, "return") # <<>>
                          /\ EventsOf(k, "return")[1].value.t = "dict"
                       THEN <<FrameOfResult(EventsOf(k, "return")[1].value)>>
                       ELSE <<>>

\* The first message's handler returned a mapping, sent as one frame; the
\* second message's handler returned None and nothing was sent for it.
C2_Witness ==
    /\ Len(trace) >= 2
    /\ trace[1] = Event("read", 1, C2_ValidEcho, JNone)
    /\ SentFor(1) = <<"{\"text\": \"hi\"}">>
    /\ EventsOf(2, "read") = <<Event("read", 2, C2_ValidEcho, JNone)>>
    /\ EventsOf(2, "return") = <<Event("return", 2, "echo", JNone)>>
    /\ SentFor(2) = <<>>

(* The shape shared by the rejections: the message read at position i was  *)
(* answered with exactly this one frame, no handler was invoked for it,    *)
(* and the connection is open and listening afterwards.                    *)
RejectedWith(i, frame) ==
    /\ i < Len(trace)
    /\ trace[i + 1] = SendStr(trace[i].msg, frame)
    /\ SentFor(trace[i].msg) = <<frame>>
    /\ EventsOf(trace[i].msg, "invoke") = <<>>
    /\ ListeningAfter(i + 1)

(* C3: an inbound text message that fails JSON decoding is answered with   *)
(* {"error": <decode failure text>}; the connection is not closed and the  *)
(* loop goes on with the next message.                                     *)
C3_Expected ==
    "not-json" :> "{\"error\": \"Expecting value: line 1 column 1 (char 0)\"}"
    @@ "[\"echo\", " :> "{\"error\": \"Expecting value: line 1 column 10 (char 9)\"}"

C3_DecodeFailure ==
    \A i \in 1..Len(trace) :
        (trace[i].ev = "read" /\ trace[i].data \in DOMAIN C3_Expected) =>
            RejectedWith(i, C3_Expected[trace[i].data])

\* "not-json" was answered with the decode error, and the well-formed message
\* after it invoked its handler, whose result was sent.
C3_Witness ==
    /\ Len(trace) >= 2
    /\ trace[1] = Event("read", 1, "not-json", JNone)
    /\ trace[2] = SendStr(1, C3_Expected["not-json"])
    /\ EventsOf(2, "read") = <<Event("read", 2, C2_ValidEcho, JNone)>>
    /\ Len(EventsOf(2, "invoke")) = 1
    /\ SentFor(2) = <<"{\"text\": \"hi\"}">>

(* C4: each structural violation of the envelope (not an array; length not *)
(* two; first element not a string; second element not an object; a key of *)
(* the second element not a string) has its own error message, sent as     *)
(* {"error": <message>}; the checks apply in that order, so a message with *)
(* several violations reports the first; the connection stays open.        *)
C4_NotAList == "the packet should be a list [packet name, {arg1: whatever, ...}]"
C4_NotTwo ==
    "two (2) elements should be included in the list: the packet name (as a string) "
    \o "and the argments (as a dictionary).  It can be an empty dictionary, "
    \o "but it has to be present."
C4_FirstNotStr == "the first element should be a string, but <class 'int'> received"
C4_SecondNotDict == "the second element should be a dictionary, but <class 'list'> received"
C4_KeyNotStr ==
    "the second element should be a dictionary containing only strings as keys.  "
    \o "The specified arguments aren't valid."

C4_Frame(message) == "{\"error\": \"" \o message \o "\"}"

C4_Expected ==
    "{}" :> C4_NotAList
    @@ "[\"echo\"]" :> C4_NotTwo
    @@ "[1, {}]" :> C4_FirstNotStr
    @@ "[\"echo\", []]" :> C4_SecondNotDict
    @@ "[1, []]" :> C4_FirstNotStr

\* A decoded value whose second element has a key that is not a string: no
\* JSON text decodes to one, so only the check itself can be exercised.
C4_IntKey == JList(<<JStr("echo"), JDict(<<JPair(JInt("1"), JNone)>>)>>)

C4_StructuralErrors ==
    /\ \A i \in 1..Len(trace) :
        (trace[i].ev = "read" /\ trace[i].data \in DOMAIN C4_Expected) =>
            RejectedWith(i, C4_Frame(C4_Expected[trace[i].data]))
    /\ check_structure(C4_IntKey) = ParseError(C4_KeyNotStr)
    /\ Cardinality({C4_NotAList, C4_NotTwo, C4_FirstNotStr, C4_SecondNotDict,
                    C4_KeyNotStr}) = 5

\* A message with two violations got the first element's error, and the next
\* message, whose second element is a list, got the second element's error.
C4_Witness ==
    /\ Len(trace) = 4
    /\ trace[1] = Event("read", 1, "[1, []]", JNone)
    /\ trace[2] = SendStr(1, C4_Frame(C4_FirstNotStr))
    /\ trace[3] = Event("read", 2, "[\"echo\", []]", JNone)
    /\ trace[4] = SendStr(2, C4_Frame(C4_SecondNotDict))

(* C5: a structurally valid envelope whose name is not a key of the packet *)
(* table is answered with exactly {"error": "the packet name <name> is not *)
(* valid"} and no handler is invoked.                                      *)
C5_UnknownName ==
    \A i \in 1..Len(trace) :
        /\ (trace[i].ev = "read" /\ trace[i].data = "[\"ping\", {}]") =>
                RejectedWith(i, "{\"error\": \"the packet name ping is not valid\"}")
        /\ (/\ trace[i].ev = "read"
            /\ trace[i].data \in DOMAIN JsonTexts
            /\ JsonTexts[trace[i].data].t = "list"
            /\ Len(JsonTexts[trace[i].data].items) = 2
            /\ JsonTexts[trace[i].data].items[1].t = "str"
            /\ JsonTexts[trace[i].data].items[2].t = "dict"
            /\ JsonTexts[trace[i].data].items[1].s \notin DOMAIN PacketTable) =>
                /\ Len(SentFor(trace[i].msg)) = 1
                /\ EventsOf(trace[i].msg, "invoke") = <<>>

\* The envelope ["ping", {}] was answered with the error frame and nothing else.
C5_Witness ==
    /\ Len(trace) = 2
    /\ trace[1] = Event("read", 1, "[\"ping\", {}]", JNone)
    /\ trace[2] = SendStr(1, "{\"error\": \"the packet name ping is not valid\"}")
    /\ inflight = {}

(* C6: arguments that fail the packet's validator (a required field is     *)
(* missing, a value has the wrong type) are answered with {"error":        *)
(* <validator error text>}, the handler is not invoked, and only this      *)
(* message is aborted: the loop goes on with the next one.                 *)
C6_Expected ==
    "[\"echo\", {}]" :>
        ("{\"error\": \"1 validation error for Validator\\ntext\\n"
            \o "  field required (type=value_error.missing)\"}")
    @@ "[\"echo\", {\"text\": []}]" :>
        ("{\"error\": \"1 validation error for Validator\\ntext\\n"
            \o "  str type expected (type=type_error.str)\"}")
    @@ "[\"chat.stream\", {\"n\": \"hi\"}]" :>
        ("{\"error\": \"1 validation error for Validator\\nn\\n"
            \o "  value is not a valid integer (type=type_error.integer)\"}")

C6_ValidationFailure ==
    \A i \in 1..Len(trace) :
        (trace[i].ev = "read" /\ trace[i].data \in DOMAIN C6_Expected) =>
            RejectedWith(i, C6_Expected[trace[i].data])

\* An envelope without the required field was answered with the validator's
\* error, and the valid envelope after it invoked the handler.
C6_Witness ==
    /\ Len(trace) >= 4
    /\ trace[1] = Event("read", 1, "[\"echo\", {}]", JNone)
    /\ trace[2] = SendStr(1, C6_Expected["[\"echo\", {}]"])
    /\ trace[3] = Event("read", 2, C2_ValidEcho, JNone)
    /\ trace[4].ev = "invoke"

(* C7: on one connection the messages are processed strictly in arrival    *)
(* order and at most one handler invocation is in flight: the k-th frame   *)
(* the loop takes is the k-th that arrived, the events of one message are  *)
(* never interleaved with those of another, and once a handler is invoked  *)
(* no further frame is taken before that handler has returned, been        *)
(* exhausted or raised.                                                    *)
C7_Ended(k, i, j) ==
    \E m \in (i + 1)..(j - 1) :
        trace[m].msg = k /\ trace[m].ev \in {"return", "exhaust", "raise"}

C7_Sequential ==
    /\ Cardinality(inflight) <= 1
    /\ \A h \in inflight : h.msg = nread /\ pc = "handling"
    /\ \A i, j \in 1..Len(trace) : i < j => trace[i].msg <= trace[j].msg
    /\ \A i \in 1..Len(trace) :
        /\ trace[i].ev \in LoopEvents =>
            /\ trace[i].msg <= Len(arrived)
            /\ trace[i].data = arrived[trace[i].msg].data
            /\ (trace[i].ev = "read") = (arrived[trace[i].msg].type = "TEXT")
            /\ Cardinality({j \in 1..i : trace[j].ev \in LoopEvents}) = trace[i].msg
        /\ trace[i].ev = "invoke" =>
            \A j \in (i + 1)..Len(trace) :
                trace[j].ev \in LoopEvents => C7_Ended(trace[i].msg, i, j)

\* A streaming handler has sent a frame and is still in flight while the next
\* frame has arrived and waits in the transport.
C7_Witness ==
    /\ inflight # {}
    /\ \A h \in inflight : h.yielded >= 1
    /\ Len(SentFor(1)) >= 1
    /\ inbox # <<>>
    /\ inbox[1].type = "TEXT"


-----------------------------------------------------------------------------
(* Reading the outcome of a request.                                       *)

\* handle() has returned or raised.
Handled == http_pc = "done"

\* The route takes POST data and its program has a QUERY_OR_POST parameter
\* called `name`.
HasQueryOrPostName ==
    /\ route.method \in ACCEPT_POST_DATA
    /\ \E i \in 1..Len(route.program_params) :
        route.program_params[i] = [name |-> "name", kind |-> "QUERY_OR_POST"]

\* The program was invoked with `value` for its parameter `name`.
InvokedWithName(value) ==
    /\ result.state # "not called"
    /\ dict_has(kwargs, "name")
    /\ dict_get(kwargs, "name") = value

-----------------------------------------------------------------------------
(* C8: on a POST or PUT route whose program has a QUERY_OR_POST parameter  *)
(* `name`, a request with `name` in the body and not in the query string   *)
(* invokes the program with the body's value, and a request with a         *)
(* non-empty `name` in both invokes it with the query string's value.      *)
C8_QueryOrPostBinding ==
    (Handled /\ HasQueryOrPostName /\ dict_has(request.post, "name")) =>
        /\ ~dict_has(request.query, "name") =>
                InvokedWithName(dict_get(request.post, "name"))
        /\ (dict_has(request.query, "name") /\ dict_get(request.query, "name") # JStr("")) =>
                InvokedWithName(dict_get(request.query, "name"))

-----------------------------------------------------------------------------
(* C9: when the program of a route returns a plain string, the response    *)
(* body is that string verbatim with content type text/html, and no        *)
(* template is looked up or rendered, even when the route has a template.  *)
C9_StringVerbatim ==
    (Handled /\ result.state = "returned" /\ isinstance_str(result.value)) =>
        /\ response = [kind |-> "Response", text |-> result.value.s,
                       content_type |-> "text/html"]
        /\ lookups = <<>>

\* The program of a route that has a template returned a string.
C9_Witness ==
    /\ Handled
    /\ route.template # ""
    /\ result = Returned(JStr("<p>hi</p>"))
    /\ response.kind = "Response"

-----------------------------------------------------------------------------
(* C10: handling a request for a route with no program and an attached     *)
(* template renders that template with no variables and returns the        *)
(* rendered text as the response.                                          *)
C10_TemplateOnly ==
    (Handled /\ ~route.program.present /\ route.template # "") =>
        /\ lookups = <<route.template>>
        /\ response = [kind |-> "Response",
                       text |-> render(route.template, JDict(<<>>)),
                       content_type |-> "text/html"]

-----------------------------------------------------------------------------
(* Reading the route table.                                                *)

\* The programs and the pages discovered so far.
DiscoveredPrograms == {f \in executed : f.root = "programs"}
DiscoveredPages == {f \in executed : f.root = "pages"}

\* The keys a program is discovered for: one per handler of the module, at
\* the path compiled from the module's own path.
KeysOfProgram(file) ==
    {<<m, uri_segments(make_path_from(file.path))>> :
        m \in {x \in WEB_METHODS : \E s \in file.symbols : s.name = <<str_lower(x)>>}}

\* The keys a template is discovered for: its own method at the path
\* compiled from its parent directory when its stem is a method name, GET
\* and POST at the path compiled from its own path otherwise.
KeysOfTemplate(file) ==
    IF \E m \in WEB_METHODS : file.path.stem = <<m>>
    THEN {<<file.path.stem[1], uri_segments(make_path_from(path_parent(file.path)))>>}
    ELSE {<<m, uri_segments(make_path_from(file.path))>> : m \in {"GET", "POST"}}

\* The parameters of the handler a program module defines for a method.
ParamsFor(file, method) ==
    (CHOOSE s \in file.symbols : s.name = <<str_lower(method)>>).params

-----------------------------------------------------------------------------
(* C11: route merge is commutative. For one (method, path) key, a program  *)
(* discovered before a template or a template before the program leaves a  *)
(* single route that has both the program and the template; the order of   *)
(* discovery never changes the final table.                                *)
C11_Merged ==
    LET keys == UNION ({KeysOfProgram(f) : f \in DiscoveredPrograms}
                        \cup {KeysOfTemplate(f) : f \in DiscoveredPages})
    IN  [k \in keys |->
            [path |-> k[2], method |-> k[1], program_class |-> FALSE,
             program |->
                IF \E f \in DiscoveredPrograms : k \in KeysOfProgram(f)
                THEN Program(ParamsFor(CHOOSE f \in DiscoveredPrograms : k \in KeysOfProgram(f), k[1]))
                ELSE NoProgram,
             template |->
                IF \E f \in DiscoveredPages : k \in KeysOfTemplate(f)
                THEN as_posix(CHOOSE f \in DiscoveredPages : k \in KeysOfTemplate(f))
                ELSE ""]]

C11_MergeCommutative ==
    /\ DOMAIN routes = DOMAIN C11_Merged
    /\ \A k \in DOMAIN routes :
        /\ routes[k].program = C11_Merged[k].program
        /\ routes[k].template = C11_Merged[k].template

-----------------------------------------------------------------------------
(* C12: in every state of the route table, during and after load, every    *)
(* registered route has a program or a template, and the key it is stored  *)
(* under is its own (method, path).                                        *)
C12_RouteInvariant ==
    \A k \in DOMAIN routes :
        /\ routes[k].program.present \/ routes[k].template # ""
        /\ k = <<routes[k].method, routes[k].path>>

\* The load is over and the table holds a route with a program only, one
\* with a template only and one with both.
C12_Witness ==
    /\ load_pc = "loaded"
    /\ \E k \in DOMAIN routes : routes[k].program.present /\ routes[k].template = ""
    /\ \E k \in DOMAIN routes : ~routes[k].program.present /\ routes[k].template # ""
    /\ \E k \in DOMAIN routes : routes[k].program.present /\ routes[k].template # ""

-----------------------------------------------------------------------------
(* C13: a template whose stem is an HTTP method name is attached to that   *)
(* one method's route, at the path compiled from its parent directory; any *)
(* other template is attached to the GET and POST routes at its own        *)
(* compiled path. A route already there gets the template and keeps its    *)
(* program; a missing route is created with the template only.             *)
C13_ProgramAt(k) ==
    IF \E p \in DiscoveredPrograms : k \in KeysOfProgram(p)
    THEN Program(ParamsFor(CHOOSE p \in DiscoveredPrograms : k \in KeysOfProgram(p), k[1]))
    ELSE NoProgram

C13_TemplateTargets ==
    \A t \in DiscoveredPages :
        /\ \A k \in KeysOfTemplate(t) :
            /\ k \in DOMAIN routes
            /\ routes[k].template = as_posix(t)
            /\ routes[k].program = C13_ProgramAt(k)
        /\ \A k \in DOMAIN routes :
            routes[k].template = as_posix(t) => k \in KeysOfTemplate(t)

\* pages/search/PUT.jj2 went to the PUT route of /search alone, which kept
\* its program; pages/about/GET.jj2 created the GET route of /about;
\* pages/index.jj2 went to the GET route of /, which kept its program, and
\* created the POST route of /.
C13_Witness ==
    LET search == <<Segment("search", FALSE)>>
        about == <<Segment("about", FALSE)>>
        root == <<Segment("", FALSE)>>
    IN  /\ {Units.PageSearchPut, Units.PageAboutGet, Units.PageIndex} \subseteq executed
        /\ routes[<<"PUT", search>>].template = "pages/search/PUT.jj2"
        /\ routes[<<"PUT", search>>].program = Program(<<"q">>)
        /\ routes[<<"GET", search>>].template = ""
        /\ routes[<<"POST", search>>].template = ""
        /\ <<"GET", <<Segment("search", FALSE), Segment("PUT", FALSE)>>>> \notin DOMAIN routes
        /\ routes[<<"GET", about>>].template = "pages/about/GET.jj2"
        /\ ~routes[<<"GET", about>>].program.present
        /\ <<"POST", about>> \notin DOMAIN routes
        /\ routes[<<"GET", root>>].template = "pages/index.jj2"
        /\ routes[<<"GET", root>>].program = Program(<<"request">>)
        /\ routes[<<"POST", root>>].template = "pages/index.jj2"
        /\ ~routes[<<"POST", root>>].program.present

-----------------------------------------------------------------------------
(* C14: a program, template or packet unit contributes entries to the      *)
(* tables if and only if its file name does not start with _ and no        *)
(* ancestor directory name starts with _; a unit that is excluded is never *)
(* loaded and adds no route and no packet.                                 *)
C14_Private(file) ==
    \/ file_name(file)[1] = "_"
    \/ \E i \in 1..Len(file.path.dirs) : file.path.dirs[i][1] = "_"
    \/ \E i \in 1..Len(base_dir) : base_dir[i][1] = "_"

C14_PacketsOf(file) ==
    {Text(make_path_for(file.path, s.name)) :
        s \in {x \in file.symbols :
                x.own /\ x.name[1] # "_" /\ x.kind \in {"coroutine", "asyncgen"}}}

C14_EntriesOf(file) ==
    CASE file.root = "programs" -> KeysOfProgram(file) \cap DOMAIN routes
      [] file.root = "pages" -> {k \in DOMAIN routes : routes[k].template = as_posix(file)}
      [] file.root = "packets" -> C14_PacketsOf(file) \cap DOMAIN packets

C14_ExpectedOf(file) ==
    CASE file.root = "programs" -> KeysOfProgram(file)
      [] file.root = "pages" -> KeysOfTemplate(file)
      [] file.root = "packets" -> C14_PacketsOf(file)

C14_PrivateUnits ==
    \A f \in visited :
        /\ f \in executed <=> ~C14_Private(f)
        /\ C14_Private(f) => C14_EntriesOf(f) = {}
        /\ (~C14_Private(f) /\ load_pc # "failed") => C14_EntriesOf(f) = C14_ExpectedOf(f)

\* The load is over: the units with a private name or below a private
\* directory were met and skipped, and the others are in the tables.
C14_Witness ==
    /\ load_pc = "loaded"
    /\ {Units.ProgramAdminUsers, Units.ProgramUtil, Units.PageDraft, Units.PageBase,
        Units.PacketPrivate, Units.PacketLib}
            \subseteq (visited \ executed)
    /\ {Units.ProgramIndex, Units.PageIndex, Units.PacketIndex} \subseteq executed
    /\ <<"GET", <<Segment("", FALSE)>>>> \in DOMAIN routes
    /\ "echo" \in DOMAIN packets
    /\ "_private.ping" \notin DOMAIN packets

-----------------------------------------------------------------------------
(* C15: for every relative path whose stem is index, the compiled URI      *)
(* starts with /, ends with / and never contains //; a top-level index     *)
(* compiles to exactly / and blog/index to /blog/.                         *)
C15_Names == { <<"blog">>, <<"index">>, <<"(", "id", ")">>, <<"_", "drafts">> }

C15_IndexPaths ==
    {RelPath(dirs, <<"index">>) : dirs \in UNION {[1..n -> C15_Names] : n \in 0..MaxDepth}}

C15_IndexPath ==
    /\ \A p \in C15_IndexPaths :
        LET uri == make_path_from(p)
        IN  /\ uri[1] = "/"
            /\ uri[Len(uri)] = "/"
            /\ \A i \in 1..(Len(uri) - 1) : ~(uri[i] = "/" /\ uri[i + 1] = "/")
    /\ Text(make_path_from(RelPath(<<>>, <<"index">>))) = "/"
    /\ Text(make_path_from(RelPath(<< <<"blog">> >>, <<"index">>))) = "/blog/"
    /\ \A f \in executed :
        (f.root \in {"programs", "pages"} /\ f.path.stem = <<"index">>) =>
            \E k \in DOMAIN routes :
                /\ Len(k[2]) = Len(f.path.dirs) + 1
                /\ k[2][Len(k[2])] = Segment("", FALSE)
                /\ routes[k].program.present \/ routes[k].template = as_posix(f)

\* programs/index.py and pages/index.jj2 were loaded: their routes are
\* those of the path /.
C15_Witness ==
    /\ load_pc = "loaded"
    /\ {Units.ProgramIndex, Units.PageIndex} \subseteq executed
    /\ {k[2] : k \in DOMAIN routes} \cap {<<Segment("", FALSE)>>} # {}
    /\ routes[<<"GET", <<Segment("", FALSE)>>>>].program.present

-----------------------------------------------------------------------------
(* C19: a packet's path is the .-join of the directories of its unit       *)
(* without those named index, then the unit's stem unless it is index,     *)
(* then the name of the handler, which is always the last component.       *)
C19_Names == { <<"index">>, <<"room">>, <<"chat">> }

C19_Paths ==
    {RelPath(dirs, stem) :
        dirs \in UNION {[1..n -> C19_Names] : n \in 0..MaxDepth}, stem \in C19_Names}

RECURSIVE C19_WithoutIndex(_)
C19_WithoutIndex(names) ==
    IF names = <<>> THEN <<>>
    ELSE (IF Head(names) = <<"index">> THEN <<>> ELSE <<Head(names)>>)
            \o C19_WithoutIndex(Tail(names))

C19_PacketPath ==
    /\ \A p \in C19_Paths : \A name \in {<<"join">>, <<"index">>} :
        LET components == split(make_path_for(p, name), ".")
        IN  /\ components = C19_WithoutIndex(p.dirs \o <<p.stem>>) \o <<name>>
            /\ components[Len(components)] = name
    /\ Text(make_path_for(RelPath(<<>>, <<"index">>), <<"echo">>)) = "echo"
    /\ Text(make_path_for(RelPath(<<>>, <<"chat">>), <<"stream">>)) = "chat.stream"
    /\ Text(make_path_for(RelPath(<< <<"index">>, <<"room">> >>, <<"index">>), <<"join">>))
            = "room.join"
    /\ \A f \in executed : f.root = "packets" =>
        \A s \in f.symbols :
            (s.own /\ s.name[1] # "_" /\ s.kind \in {"coroutine", "asyncgen"}) =>
                \E p \in DOMAIN packets :
                    /\ packets[p].path = p
                    /\ packets[p].handler.params = s.params
                    /\ split(make_path_for(f.path, s.name), ".")
                        = C19_WithoutIndex(f.path.dirs \o <<f.path.stem>>) \o <<s.name>>
                    /\ p = Text(make_path_for(f.path, s.name))

\* The packets of packets/index.py, packets/chat.py and
\* packets/index/room/index.py are in the table under their paths, and
\* those of the served application are as the connections find them.
C19_Witness ==
    /\ load_pc = "loaded"
    /\ {Units.PacketIndex, Units.PacketChat, Units.PacketRoom} \subseteq executed
    /\ DOMAIN packets = {"echo", "say", "chat.stream", "room.join"}
    /\ \A p \in DOMAIN PacketTable : packets[p] = PacketTable[p]

-----------------------------------------------------------------------------
(* C16: for every path with a segment written (id), as a directory or as   *)
(* the stem, the compiled URI has {id} at the same position and the other  *)
(* segments are kept in their order; a program parameter named id on that  *)
(* route is classified as a dynamic part and is bound, when a request is   *)
(* handled, to the value the path match gives for id.                      *)
C16_Id == <<"(", "id", ")">>
C16_Names == { <<"blog">>, C16_Id }

C16_Paths ==
    {p \in {RelPath(dirs, stem) :
                dirs \in UNION {[1..n -> C16_Names] : n \in 0..MaxDepth},
                stem \in C16_Names} :
        \E i \in 1..(Len(p.dirs) + 1) : (p.dirs \o <<p.stem>>)[i] = C16_Id}

C16_DynamicSegment ==
    /\ \A p \in C16_Paths :
        LET written == p.dirs \o <<p.stem>>
            uri == make_path_from(p)
            compiled == Tail(split(uri, "/"))
        IN  /\ uri[1] = "/"
            /\ Len(compiled) = Len(written)
            /\ \A i \in 1..Len(written) :
                compiled[i] = IF written[i] = C16_Id THEN <<"{", "id", "}">> ELSE written[i]
            /\ \A m \in WEB_METHODS :
                \A params \in {<<"id">>, <<"request", "id">>} :
                    \E i \in 1..Len(params) :
                        PygWebRoute(uri_segments(uri), m, Program(params), FALSE, "")
                            .program_params[i] = [name |-> "id", kind |-> "DYNAMIC_PART"]
    /\ PygWebRoute(uri_segments(make_path_from(Units.ProgramBlogId.path)), "GET",
                   Program(ParamsFor(Units.ProgramBlogId, "GET")), FALSE,
                   as_posix(Units.PageBlogId))
            \in Routes
    /\ (/\ http_pc \in {"bound", "executed", "done"}
        /\ http_pc = "done" => result.state # "not called"
        /\ \E i \in 1..Len(route.program_params) :
                route.program_params[i] = [name |-> "id", kind |-> "DYNAMIC_PART"])
            => /\ dict_has(request.match_info, "id")
               /\ dict_has(kwargs, "id")
               /\ dict_get(kwargs, "id") = dict_get(request.match_info, "id")

\* The program of programs/blog/(id).py has been invoked for a request
\* whose path matched id to 7.
C16_Witness ==
    /\ Handled
    /\ route.path = <<Segment("blog", FALSE), Segment("id", TRUE)>>
    /\ route.path = uri_segments(make_path_from(Units.ProgramBlogId.path))
    /\ result.state = "returned"
    /\ dict_get(kwargs, "id") = JStr("7")

-----------------------------------------------------------------------------
(* C17: a program parameter that is not self, not request and not the name *)
(* of a dynamic part is classified QUERY when the route's method is GET,   *)
(* HEAD, DELETE, OPTIONS or PATCH and QUERY_OR_POST when it is POST or     *)
(* PUT; QUERY_OR_POST is never given on one of the first five methods.     *)
C17_QueryKinds ==
    \A k \in DOMAIN routes :
        \A i \in 1..Len(routes[k].program_params) :
            LET p == routes[k].program_params[i]
            IN  /\ (/\ p.name \notin {"self", "request"}
                    /\ Segment(p.name, TRUE) \notin {k[2][j] : j \in 1..Len(k[2])})
                        => /\ k[1] \in {"GET", "HEAD", "DELETE", "OPTIONS", "PATCH"}
                                => p.kind = "QUERY"
                           /\ k[1] \in {"POST", "PUT"} => p.kind = "QUERY_OR_POST"
                /\ p.kind = "QUERY_OR_POST" => k[1] \in {"POST", "PUT"}
                /\ p.kind \in routes[k].program_params_kind

\* programs/search.py, which has a handler taking q for each of the seven
\* methods, has been loaded.
C17_Witness ==
    /\ load_pc = "loaded"
    /\ Units.ProgramSearch \in executed
    /\ \A m \in {"GET", "HEAD", "DELETE", "OPTIONS", "PATCH"} :
        routes[<<m, <<Segment("search", FALSE)>>>>].program_params
            = <<[name |-> "q", kind |-> "QUERY"]>>
    /\ \A m \in {"POST", "PUT"} :
        routes[<<m, <<Segment("search", FALSE)>>>>].program_params
            = <<[name |-> "q", kind |-> "QUERY_OR_POST"]>>

-----------------------------------------------------------------------------
(* C18: building a route whose program has a parameter named self, on a    *)
(* route with no program class, fails; the failure is fatal to the load:   *)
(* the route is not registered, the server is not marked loaded and        *)
(* serve() does not start serving.                                         *)
C18_TakesSelf(file, method) ==
    \E s \in file.symbols :
        /\ s.name = <<str_lower(method)>>
        /\ \E i \in 1..Len(s.params) : s.params[i] = "self"

C18_SelfWithoutClass ==
    /\ \A f \in DiscoveredPrograms : \A m \in WEB_METHODS :
        C18_TakesSelf(f, m) =>
            /\ load_pc = "failed"
            /\ <<m, uri_segments(make_path_from(f.path))>> \notin DOMAIN routes
    /\ \A k \in DOMAIN routes : \A i \in 1..Len(routes[k].program.params) :
        routes[k].program.params[i] = "self" => routes[k].program_class
    /\ load_pc = "failed" => (~loaded /\ ~serving)

\* serve() called load(), which met programs/account.py, whose get handler
\* takes self.
C18_Witness ==
    /\ load_pc = "failed"
    /\ entry = "serve"
    /\ Units.ProgramAccount \in executed
    /\ ~loaded
    /\ ~serving


-----------------------------------------------------------------------------
(* C20: in the validator built from a handler's signature every declared   *)
(* parameter is a field; a parameter with a default is optional and takes  *)
(* that default, and a parameter with no default is required: an envelope  *)
(* that omits it is answered with a validation error and the handler is    *)
(* not invoked.                                                            *)
C20_MissingField(name) ==
    "{\"error\": \"1 validation error for Validator\\n" \o name
        \o "\\n  field required (type=value_error.missing)\"}"

C20_Envelopes == {m \in DOMAIN JsonTexts :
                    /\ JsonTexts[m].t = "list"
                    /\ Len(JsonTexts[m].items) = 2
                    /\ JsonTexts[m].items[1].t = "str"
                    /\ JsonTexts[m].items[2].t = "dict"
                    /\ JsonTexts[m].items[1].s \in DOMAIN packets}

C20_DeclaredParameters ==
    \A i \in 1..Len(trace) :
        (trace[i].ev = "read" /\ trace[i].data \in C20_Envelopes) =>
            LET name == JsonTexts[trace[i].data].items[1].s
                args == JsonTexts[trace[i].data].items[2]
                params == packets[name].handler.params
            IN  \A j \in 1..Len(params) :
                    ~dict_has(args, params[j].name) =>
                        IF params[j].has_default
                        THEN /\ Len(EventsOf(trace[i].msg, "invoke")) = 1
                             /\ dict_get(EventsOf(trace[i].msg, "invoke")[1].value,
                                         params[j].name) = params[j].default
                        ELSE RejectedWith(i, C20_MissingField(params[j].name))

-----------------------------------------------------------------------------
(* C21: the route and packet tables are fully built before any dispatch    *)
(* begins and are never changed afterwards. Whenever the serving task      *)
(* exists, load() has completed and every loader has consumed its whole    *)
(* directory; a load() or serve() call on a loaded server leaves both      *)
(* tables as they are and removes no entry.                                *)
C21_TablesFrozen ==
    /\ [](serving => loaded)
    /\ [](loaded => /\ load_pc = "loaded"
                    /\ Pending("programs", py) = {}
                    /\ Pending("pages", jj2) = {}
                    /\ Pending("packets", py) = {})
    /\ [][loaded => (loaded' /\ routes' = routes /\ packets' = packets)]_vars

\* serve() loaded the application and started serving, and load() was
\* called again afterwards: the tables hold the application's entries.
C21_Witness ==
    /\ loaded
    /\ serving
    /\ entry = "load"
    /\ <<"GET", <<Segment("", FALSE)>>>> \in DOMAIN routes
    /\ "echo" \in DOMAIN packets

-----------------------------------------------------------------------------
(* C22: at dispatch only the sources the route's kinds call for are read.  *)
(* The POST body is read only when a parameter is QUERY_OR_POST, the query *)
(* string only when a parameter takes a query value, match_info only when  *)
(* a parameter is a dynamic part; a route with none of these kinds, or     *)
(* with no program, reads nothing.                                         *)
C22_Kinds == {route.program_params[i].kind : i \in 1..Len(route.program_params)}

C22_OnlyNeededSources ==
    /\ "post" \in reads => "QUERY_OR_POST" \in C22_Kinds
    /\ "query" \in reads => C22_Kinds \cap {"QUERY", "QUERY_OR_POST"} # {}
    /\ "match_info" \in reads => "DYNAMIC_PART" \in C22_Kinds
    /\ C22_Kinds \cap {"QUERY", "QUERY_OR_POST", "DYNAMIC_PART"} = {} => reads = {}
    /\ http_pc \in {"idle", "received"} => reads = {}

\* The blog route, whose program takes request and the dynamic part id, has
\* bound its parameters on a request that has a query string and a body:
\* match_info was read, the query string and the body were not.
C22_Witness ==
    /\ http_pc = "bound"
    /\ C22_Kinds = {"REQUEST", "DYNAMIC_PART"}
    /\ request.query # JDict(<<>>)
    /\ request.post # JDict(<<>>)
    /\ reads = {"match_info"}

-----------------------------------------------------------------------------
(* C23: packet paths are unique within the packet table. After load every  *)
(* eligible handler discovered (unit, symbol) is registered under its own  *)
(* path, and no two distinct handlers are given the same path.             *)
C23_Handlers ==
    UNION {{<<f, s>> : s \in packet_symbols(f)} :
            f \in {x \in executed : x.root = "packets"}}

C23_UniquePaths ==
    load_pc = "loaded" =>
        /\ \A h \in C23_Handlers :
            /\ packet_path(h[1], h[2]) \in DOMAIN packets
            /\ packets[packet_path(h[1], h[2])].handler.params = h[2].params
        /\ \A h, g \in C23_Handlers :
            h # g => packet_path(h[1], h[2]) # packet_path(g[1], g[2])

-----------------------------------------------------------------------------
(* C24: when a packet handler raises while a message is processed, the     *)
(* exception is dropped: no frame is sent for it, and the connection stays *)
(* open, the read loop going on with the next frame.                       *)
C24_RaiseDropped ==
    \A i \in 1..Len(trace) :
        trace[i].ev = "raise" =>
            /\ \A j \in (i + 1)..Len(trace) : trace[j].ev # "send"
            /\ ListeningAfter(i)

-----------------------------------------------------------------------------
(* C25: the read loop of a connection ends when the transport delivers an  *)
(* error frame or the inbound stream ends, and the engine closes for no    *)
(* other frame; a frame that is neither text nor error is skipped: nothing *)
(* is sent for it, no handler is invoked, and the loop keeps reading.      *)
C25_LoopEnd ==
    /\ \A i \in 1..Len(trace) :
        /\ trace[i].ev \in {"break", "end"} => (i = Len(trace) /\ pc = "closed")
        /\ trace[i].ev \in LoopEvents =>
            /\ arrived[trace[i].msg].type = "ERROR" <=> trace[i].ev = "break"
            /\ arrived[trace[i].msg].type = "CLOSE" <=> trace[i].ev = "end"
            /\ arrived[trace[i].msg].type = "BINARY" <=> trace[i].ev = "skip"
        /\ trace[i].ev = "skip" =>
            /\ EventsOf(trace[i].msg, "send") = <<>>
            /\ EventsOf(trace[i].msg, "invoke") = <<>>
            /\ ListeningAfter(i)
    /\ pc = "closed" => (trace # <<>> /\ trace[Len(trace)].ev \in {"break", "end"})

\* A binary frame was skipped and the error frame that came next ended the
\* loop.
C25_Witness ==
    /\ Len(trace) = 2
    /\ trace[1].ev = "skip"
    /\ trace[2].ev = "break"
    /\ pc = "closed"

-----------------------------------------------------------------------------
(* C26: cancel() on a started server cancels the web server's task and     *)
(* stops listening. Once cancel() has been called the server accepts no    *)
(* connection, whether the listener had finished starting or not, and no   *)
(* serving task is left running.                                           *)
C26_CancelStopsListening ==
    stop_event => (~listening /\ serving_task # "pending")

-----------------------------------------------------------------------------
(* C27: the outcomes of an inbound text message exclude each other. A      *)
(* message that fails decoding, the structural checks, the lookup of its   *)
(* name or validation is answered with exactly one error frame and invokes *)
(* no handler; any other message invokes the handler of its packet exactly *)
(* once and no error frame of the protocol is sent for it.                 *)
C27_Rejected ==
    DOMAIN C3_Expected \cup DOMAIN C4_Expected \cup DOMAIN C6_Expected
        \cup {"[\"ping\", {}]"}

C27_ErrorFrames ==
    {C3_Expected[m] : m \in DOMAIN C3_Expected}
        \cup {C4_Frame(C4_Expected[m]) : m \in DOMAIN C4_Expected}
        \cup {C6_Expected[m] : m \in DOMAIN C6_Expected}
        \cup {"{\"error\": \"the packet name ping is not valid\"}"}

C27_ExclusiveOutcomes ==
    \A i \in 1..Len(trace) :
        trace[i].ev = "read" =>
            LET invoked == EventsOf(trace[i].msg, "invoke")
                sent == SentFor(trace[i].msg)
            IN  /\ trace[i].data \in C27_Rejected =>
                    /\ invoked = <<>>
                    /\ Len(sent) = 1
                    /\ sent[1] \in C27_ErrorFrames
                /\ trace[i].data \notin C27_Rejected =>
                    /\ Len(invoked) = 1
                    /\ trace[i + 1] = invoked[1]
                    /\ invoked[1].data = JsonTexts[trace[i].data].items[1].s
                    /\ \A j \in 1..Len(sent) : sent[j] \notin C27_ErrorFrames

\* The first message was rejected with one error frame and no invocation;
\* the second invoked its handler, whose result was sent.
C27_Witness ==
    /\ Len(arrived) = 2
    /\ arrived[1].data \in C27_Rejected
    /\ Len(SentFor(1)) = 1
    /\ EventsOf(1, "invoke") = <<>>
    /\ Len(EventsOf(2, "invoke")) = 1
    /\ Len(EventsOf(2, "return")) = 1
    /\ SentFor(2) = <<"{\"text\": \"hi\"}">>

-----------------------------------------------------------------------------
(* C28: a packet handler is invoked with the validator's output, not with  *)
(* the arguments of the envelope. A validator field that has a default and *)
(* is absent from the envelope is passed with its default, and a key of    *)
(* the envelope that is not a validator field is not passed.               *)
C28_Fields == "echo" :> {"text"} @@ "chat.stream" :> {"n"} @@ "say" :> {}
C28_Defaults == "echo" :> <<>> @@ "chat.stream" :> ("n" :> JInt("3")) @@ "say" :> <<>>
C28_Keys(d) == {d.items[j].items[1].s : j \in 1..Len(d.items)}

C28_ValidatorOutput ==
    \A i \in 2..Len(trace) :
        trace[i].ev = "invoke" =>
            LET envelope == JsonTexts[trace[i - 1].data].items[2]
                passed == trace[i].value
                path == trace[i].data
            IN  /\ trace[i - 1].ev = "read"
                /\ C28_Keys(passed) = C28_Fields[path]
                /\ \A name \in DOMAIN C28_Defaults[path] :
                    name \notin C28_Keys(envelope) =>
                        dict_get(passed, name) = C28_Defaults[path][name]
                /\ \A name \in C28_Keys(envelope) \ C28_Fields[path] :
                    ~dict_has(passed, name)

\* ["chat.stream", {}] invoked its handler with the default n = 3, and
\* ["say", {"text": "hi"}], whose key is not a field of say's validator,
\* invoked its handler with no argument.
C28_Witness ==
    /\ Len(arrived) = 2
    /\ arrived[1].data = "[\"chat.stream\", {}]"
    /\ arrived[2].data = "[\"say\", {\"text\": \"hi\"}]"
    /\ Len(EventsOf(1, "invoke")) = 1
    /\ EventsOf(1, "invoke")[1].value = JDict(<<JPair(JStr("n"), JInt("3"))>>)
    /\ Len(EventsOf(2, "invoke")) = 1
    /\ EventsOf(2, "invoke")[1].value = JDict(<<>>)

-----------------------------------------------------------------------------
(* C29: the reserved names come before the dynamic segments, and every     *)
(* parameter has exactly one kind. A parameter named request is REQUEST,   *)
(* and one named self INSTANCE, even when the path has a dynamic segment   *)
(* of that name; when the program is invoked it is given exactly one       *)
(* keyword argument per declared parameter.                                *)
C29_Reserved == "self" :> "INSTANCE" @@ "request" :> "REQUEST"

C29_ReservedFirst ==
    /\ \A name \in DOMAIN C29_Reserved : \A method \in WEB_METHODS :
        /\ param_kind(name, <<Segment(name, TRUE)>>, method) = C29_Reserved[name]
        /\ PygWebRoute(<<Segment("x", FALSE), Segment(name, TRUE)>>, method,
                       Program(<<name, "x">>), TRUE, "").program_params[1]
                = [name |-> name, kind |-> C29_Reserved[name]]
    /\ Len(route.program_params) = Len(route.program.params)
    /\ \A i \in 1..Len(route.program_params) :
        /\ route.program_params[i].name = route.program.params[i]
        /\ route.program_params[i].name \in DOMAIN C29_Reserved =>
            route.program_params[i].kind = C29_Reserved[route.program_params[i].name]
    /\ result # NotCalled =>
        /\ Len(kwargs.items) = Len(route.program.params)
        /\ \A i \in 1..Len(kwargs.items) :
            /\ kwargs.items[i].items[1].s = route.program.params[i]
            /\ route.program.params[i] = "request" =>
                kwargs.items[i].items[2] = RequestObject

\* The program of /user/{request}, which takes request and name, was
\* invoked with the request object as `request` and the query value as
\* `name`.
C29_Witness ==
    /\ http_pc = "executed"
    /\ route.path = <<Segment("user", FALSE), Segment("request", TRUE)>>
    /\ route.program_params_kind = {"REQUEST", "QUERY"}
    /\ kwargs = JDict(<<JPair(JStr("request"), RequestObject),
                        JPair(JStr("name"), JStr("bob"))>>)

=============================================================================
